---- MODULE Spec2Model ----
(***************************************************************************)
(* Rate-governed caching fetch layer of team-health-monitor:               *)
(*   RateLimiter   (src/src/rate-limiter.js)                               *)
(*   CacheManager  (src/unnamed/part_000, cache-manager.js)                *)
(*   GitHubClient  (src/src/github-client.js)                              *)
(* and the analysis built on it:                                           *)
(*   MetricsAnalyzer     (src/src/metrics-analyzer.js)                     *)
(*   AIDeliveryAnalyzer, main  (src/unnamed/part_000, index.js)            *)
(* Time is in milliseconds, counted from the construction of the client.   *)
(***************************************************************************)
EXTENDS Integers, Sequences, FiniteSets, TLC

VARIABLES
  now,             \* Date.now()
  rateLimiter,     \* the fields of the RateLimiter object
  requestsThisRun, \* GitHubClient.requestsThisRun
  store,           \* the cache directory: key -> file contents
  pc,              \* per task: position inside makeRequest
  cacheKey,        \* per task: cacheKey argument of the current makeRequest
  calls,           \* per task: invocations of requestFn in the current makeRequest
  wakeAt,          \* per task: time at which the pending sleep() timer is due
  stage,           \* per task: which waitIfNeeded() the task sleeps in
  result,          \* the makeRequest call that finished last and its outcome
  todo,            \* per task: makeRequest calls the task still has to make
  issued,          \* history: timestamps of every recordRequest(false)
  rateLimitErrors, \* history: number of rate-limit rejections of requestFn
  cacheOp,         \* the cache operation that finished last and its outcome
  written,         \* history: per key, the payload and time of the last set()
  keyArgs,         \* the arguments of two cache-key computations
  keyOut,          \* the keys computed from keyArgs
  source,          \* the collection the paginated endpoint serves, in API order
  window,          \* per task: since / until of the current getPullRequests
  page,            \* per task: page number of the current page request
  pulls,           \* per task: the list accumulated by getPullRequests
  fetched,         \* the paginated fetch that finished last and its outcome
  listing,         \* per task: endpoint and options of the current getCommits
                   \* or listRepositories
  batch,           \* prs argument of the current or last processPRs
  index,           \* position of processPRs in batch
  prMetrics,       \* the list processPRs accumulates
  partial,         \* prDetails and reviews held by getPullRequestDetails
  outcomes,        \* history: per record of batch, the detail returned, or null
  processed,       \* the processPRs call that finished last and its outcome
  cachedDetails,   \* history: per (number, updated_at), the last detail stored
  periods,         \* per period: the pull requests and their reviews
  analysed,        \* per period: the metrics and the summary of the records
  report,          \* the comparison analyzeRepository returns
  argv,            \* the command line options of main
  run              \* what main did: exit, or the analyzer it constructed

taskVars    == <<pc, cacheKey, calls, wakeAt, stage, result, todo>>
clientVars  == <<rateLimiter, requestsThisRun, issued, rateLimitErrors,
                 wakeAt, stage, result, todo>>
cacheObs    == <<cacheOp, written>>
keyVars     == <<keyArgs, keyOut>>
pageVars    == <<source, window, page, pulls, fetched, listing>>
detailVars  == <<batch, index, prMetrics, partial, outcomes, processed, cachedDetails>>
metricVars  == <<periods, analysed, report>>
runVars     == <<argv, run>>
vars        == <<now, rateLimiter, requestsThisRun, store, pc, cacheKey, calls,
                 wakeAt, stage, result, todo, issued, rateLimitErrors,
                 cacheOp, written, keyArgs, keyOut,
                 source, window, page, pulls, fetched, listing,
                 batch, index, prMetrics, partial, outcomes, processed,
                 cachedDetails, periods, analysed, report,
                 argv, run>>

----------------------------------------------------------------------------
(* Bounds of the model *)

NumTasks == 2
ReqsPerTask == 1
SeqRequests == 3
HourlyRequests == 4
MaxRateLimitErrors == 2
MaxNow == 61000
SmallBurstLimit == 2
SmallRequestsPerHour == 3
maxAge == 60000
LowCeilingMs == 500
PerPage == 2
MaxFetches == 2
MaxRuns == 2
MidCeilingMs == 2000
MaxCurrent == 2
MaxPrevious == 2
MaxPages == 3

Tasks == 1..NumTasks

(* Program constants *)

DefaultRequestsPerHour == 4500
DefaultBurstLimit == 100
HourMs == 60 * 60 * 1000
MinuteMs == 60 * 1000
DayMs == 24 * HourMs
FloorBackoffMs == 1000
DefaultMaxBackoffMs == 60000
HourlyThreshold == 10
CriticalRemaining == 10
enabled == TRUE

\* currentBackoffMs is held in units of 1/Scale ms: the multiplier 1.5 then
\* stays exact for every value below the ceiling (1000 * 1.5^10 = 57665.04).
Scale == 2 ^ 7

Max(a, b) == IF a >= b THEN a ELSE b
Min(a, b) == IF a <= b THEN a ELSE b

RECURSIVE SeqMin(_)
SeqMin(s) ==
  IF Len(s) = 1 THEN s[1] ELSE Min(s[1], SeqMin(Tail(s)))

----------------------------------------------------------------------------
(* JavaScript values that travel as payloads *)

JSNull == [tag |-> "null", num |-> 0, items |-> <<>>]
JSNum(n) == [tag |-> "num", num |-> n, items |-> <<>>]
JSArr(s) == [tag |-> "arr", num |-> 0, items |-> s]

MaxNum == 1

\* a pull request as the list endpoint returns it
PullRequest(n, createdAt) == [number |-> n, created_at |-> createdAt]

\* an array of objects; the empty array is the same value whatever it held
JSObjs(s) == IF s = <<>> THEN JSArr(<<>>) ELSE [tag |-> "objs", num |-> 0, items |-> s]

\* an array of commits or of repositories, of which the sha or name is kept
JSNames(s) == IF s = <<>> THEN JSArr(<<>>) ELSE [tag |-> "names", num |-> 0, items |-> s]

\* the analysis period, and the creation times a pull request may have
SinceMs == DayMs
UntilMs == 2 * DayMs
CreatedAts == {SinceMs - 1, SinceMs, UntilMs}
MaxRecords == 2 * PerPage + 1

\* the result of getPullRequestDetails: {...prDetails, reviews, commits}, of
\* which number, merged_at (0 for null) and the submitted_at of the approving
\* reviews are kept
JSDetail(n, mergedAt, reviews) ==
  [tag |-> "detail", num |-> n, items |-> <<mergedAt>> \o reviews]

\* the pull requests processPRs is given: number and updated_at
PRNumbers == {1, 2}
UpdatedAts == {"2024-05-01", "2024-05-02"}
PRRefs == [number : PRNumbers, updated_at : UpdatedAts]
MergedAtMs == SinceMs + HourMs
ReviewAtMs == SinceMs + 1000
ReviewLists == {<<ReviewAtMs>>}

Payloads == {JSNum(0), JSArr(<<>>), JSArr(<<1>>)}

\* JavaScript truthiness, as used by `cacheKey && data`
Truthy(v) ==
  CASE v.tag = "null" -> FALSE
    [] v.tag = "num"  -> v.num # 0
    [] OTHER          -> TRUE

Keys == {"k1", "k2"}
NoKey == "null"
NoReset == 0

----------------------------------------------------------------------------
(* JSON.stringify / JSON.parse on payloads.  A JSON text is a sequence of  *)
(* tokens; numbers are printed in decimal.                                 *)

RECURSIVE ItemTokens(_)
ItemTokens(s) ==
  IF s = <<>> THEN <<>>
  ELSE IF Len(s) = 1 THEN <<ToString(s[1])>>
  ELSE <<ToString(s[1]), ",">> \o ItemTokens(Tail(s))

ObjectTokens(pr) ==
  <<"{", "number", ":", ToString(pr.number), ",",
    "created_at", ":", ToString(pr.created_at), "}">>

RECURSIVE ObjectsTokens(_)
ObjectsTokens(s) ==
  IF Len(s) = 1 THEN ObjectTokens(s[1])
  ELSE ObjectTokens(s[1]) \o <<",">> \o ObjectsTokens(Tail(s))

RECURSIVE NamesTokens(_)
NamesTokens(s) ==
  IF Len(s) = 1 THEN <<"{", "name", ":", ToString(s[1]), "}">>
  ELSE <<"{", "name", ":", ToString(s[1]), "}", ",">> \o NamesTokens(Tail(s))

DetailTokens(v) ==
  <<"{", "number", ":", ToString(v.num), ",",
    "merged_at", ":", IF v.items[1] = 0 THEN "null" ELSE ToString(v.items[1]), ",",
    "reviews", ":", "[">> \o ItemTokens(Tail(v.items)) \o <<"]", "}">>

JSONStringify(v) ==
  CASE v.tag = "null" -> <<"null">>
    [] v.tag = "num"  -> <<ToString(v.num)>>
    [] v.tag = "detail" -> DetailTokens(v)
    [] v.tag = "objs" -> <<"[">> \o ObjectsTokens(v.items) \o <<"]">>
    [] v.tag = "names" -> <<"[">> \o NamesTokens(v.items) \o <<"]">>
    [] OTHER          -> <<"[">> \o ItemTokens(v.items) \o <<"]">>

ParseNumber(tok) == CHOOSE n \in 0..(MaxNum + 1) : ToString(n) = tok

ParseInt(tok, range) == CHOOSE n \in range : ToString(n) = tok

\* the objects of an array text: ten tokens each, the separating comma included
ParseObjects(inner) ==
  [i \in 1..((Len(inner) + 1) \div 10) |->
     PullRequest(ParseInt(inner[10 * (i - 1) + 4], 1..(MaxRecords + 1)),
                 ParseInt(inner[10 * (i - 1) + 8], CreatedAts))]

\* the names of an array text: six tokens each, the separating comma included
ParseNames(inner) ==
  [i \in 1..((Len(inner) + 1) \div 6) |->
     ParseInt(inner[6 * (i - 1) + 4], 1..((MaxPages + 1) * PerPage))]

\* the object text of a detail: number at token 4, merged_at at token 8, the
\* reviews between the brackets that open at token 12
ParseDetail(text) ==
  LET inner == SubSeq(text, 13, Len(text) - 2)
      n == (Len(inner) + 1) \div 2
  IN JSDetail(ParseInt(text[4], PRNumbers),
              IF text[8] = "null" THEN 0 ELSE ParseInt(text[8], {MergedAtMs}),
              [i \in 1..n |-> ParseInt(inner[2 * i - 1], {ReviewAtMs})])

JSONParse(text) ==
  IF text = <<"null">> THEN JSNull
  ELSE IF text[1] = "{" THEN ParseDetail(text)
  ELSE IF text[1] = "["
  THEN LET inner == SubSeq(text, 2, Len(text) - 1)
           n == (Len(inner) + 1) \div 2
       IN IF inner # <<>> /\ inner[1] = "{"
          THEN IF inner[2] = "name" THEN JSNames(ParseNames(inner))
               ELSE JSObjs(ParseObjects(inner))
          ELSE JSArr([i \in 1..n |-> ParseNumber(inner[2 * i - 1])])
  ELSE JSNum(ParseNumber(text[1]))

----------------------------------------------------------------------------
(* CacheManager.  A cache file holds {timestamp, data}; store maps the     *)
(* keys that have a file to the file's contents.                           *)

\* an isExpired that already drops an entry whose age equals maxAge
isExpired_atMaxAge(timestamp, t) == t - timestamp >= maxAge

isExpired(timestamp, t) == t - timestamp > maxAge

RemoveKey(S, k) == [x \in (DOMAIN S) \ {k} |-> S[x]]

\* a get that returns a stale entry instead of removing it
CacheGet_keepsStale(S, k, t) ==
  IF k \notin DOMAIN S THEN [ret |-> JSNull, store |-> S]
  ELSE [ret |-> JSONParse(S[k].data), store |-> S]

\* get(key): the value returned and the store afterwards
CacheGet(S, k, t) ==
  IF ~enabled THEN [ret |-> JSNull, store |-> S]
  ELSE IF k \notin DOMAIN S THEN [ret |-> JSNull, store |-> S]
  ELSE IF isExpired(S[k].timestamp, t)
       THEN [ret |-> JSNull, store |-> RemoveKey(S, k)]
       ELSE [ret |-> JSONParse(S[k].data), store |-> S]

\* set(key, data): the store afterwards
CacheSet(S, k, v, t) ==
  IF ~enabled THEN S
  ELSE [x \in (DOMAIN S) \cup {k} |->
          IF x = k THEN [timestamp |-> t, data |-> JSONStringify(v)] ELSE S[x]]

\* a getOrSet that answers every call from fetchFunction
getOrSetCached_alwaysFetches(S, k, t) == [ret |-> JSNull, store |-> S]

\* getOrSet, `await this.get(key)`
getOrSetCached(S, k, t) == CacheGet(S, k, t)

\* a getOrSet that does not store an empty list
getOrSetStored_skipsEmpty(S, k, data, t) ==
  IF data = JSArr(<<>>) THEN S ELSE CacheSet(S, k, data, t)

\* getOrSet, `await this.set(key, data)` after fetchFunction resolved
getOrSetStored(S, k, data, t) == CacheSet(S, k, data, t)

\* a getOrSet that caches the failure of fetchFunction as an empty value
getOrSetThrown_cachesFailure(S, k, t) == CacheSet(S, k, JSArr(<<>>), t)

\* getOrSet when fetchFunction rejects: set() is not reached
getOrSetThrown(S, k, t) == S

----------------------------------------------------------------------------
(* RateLimiter, as functions on the record L of its fields *)

\* The statistics kept are those a request outcome is counted in;
\* backoffEvents, rateLimitHits and totalWaitTime are write-only sums.
NewRateLimiter(options) ==
  [requestsPerHour |-> options.requestsPerHour,
   burstLimit |-> options.burstLimit,
   maxBackoffMs |-> options.maxBackoffMs,
   requests |-> <<>>, burstRequests |-> <<>>,
   currentBackoffMs |-> FloorBackoffMs * Scale,
   isRateLimited |-> FALSE, rateLimitResetTime |-> NoReset,
   stats |-> [totalRequests |-> 0, cachedRequests |-> 0, rateLimitHits |-> 0]]

\* a pruning that keeps the request made exactly one window ago
NewerThan_inclusive(s, horizon) == SelectSeq(s, LAMBDA time : time >= horizon)

NewerThan(s, horizon) == SelectSeq(s, LAMBDA time : time > horizon)

\* a pruning that leaves the burst window as it is
cleanOldRequests_hourlyOnly(L, t) ==
  [L EXCEPT !.requests = NewerThan(@, t - HourMs)]

cleanOldRequests(L, t) ==
  [L EXCEPT !.requests = NewerThan(@, t - HourMs),
            !.burstRequests = NewerThan(@, t - MinuteMs)]

\* getRemainingRequests(): the counts returned (L is already pruned at t)
getRemainingRequests(L) ==
  [hourly |-> Max(0, L.requestsPerHour - Len(L.requests)),
   burst  |-> Max(0, L.burstLimit - Len(L.burstRequests))]

\* getWaitTime() after the hard limit: the burst window, then the hourly one
windowWaitTime(L2, t) ==
  LET remaining == getRemainingRequests(L2)
  IN IF remaining.burst <= 0
     THEN [wait |-> Max(0, (SeqMin(L2.burstRequests) + MinuteMs) - t) * Scale,
           L |-> L2]
     ELSE IF remaining.hourly <= HourlyThreshold
     THEN \* Math.min() of an empty window is Infinity: the wait is the backoff
          IF L2.requests = <<>>
          THEN [wait |-> L2.currentBackoffMs, L |-> L2]
          ELSE LET waitTime == Max(0, (SeqMin(L2.requests) + HourMs) - t)
               IN IF waitTime > 0
                  THEN [wait |-> IF waitTime > L2.currentBackoffMs \div Scale
                                 THEN L2.currentBackoffMs
                                 ELSE waitTime * Scale,
                        L |-> L2]
                  ELSE [wait |-> 0, L |-> L2]
     ELSE [wait |-> 0, L |-> L2]

\* a limiter that keeps an expired hard limit as it is
clearRateLimit_keepsLimit(L) == L

\* the reset time has passed
clearRateLimit(L) ==
  [L EXCEPT !.isRateLimited = FALSE,
            !.rateLimitResetTime = NoReset,
            !.currentBackoffMs = FloorBackoffMs * Scale]

\* a getWaitTime that adds the backoff to the time until the reset
getWaitTime_addsBackoff(L0, t) ==
  LET L1 == cleanOldRequests(L0, t)
      hard == L1.isRateLimited /\ L1.rateLimitResetTime # NoReset
      hardWait == Max(0, L1.rateLimitResetTime - t)
  IN IF hard /\ hardWait > 0
     THEN [wait |-> hardWait * Scale + L1.currentBackoffMs, L |-> L1]
     ELSE windowWaitTime(IF hard THEN clearRateLimit(L1) ELSE L1, t)

\* getWaitTime(): the wait returned, in 1/Scale ms, and the fields afterwards
getWaitTime(L0, t) ==
  LET L1 == cleanOldRequests(L0, t)
      hard == L1.isRateLimited /\ L1.rateLimitResetTime # NoReset
      hardWait == Max(0, L1.rateLimitResetTime - t)
  IN IF hard /\ hardWait > 0
     THEN [wait |-> hardWait * Scale, L |-> L1]
     ELSE windowWaitTime(IF hard THEN clearRateLimit(L1) ELSE L1, t)

\* a waitIfNeeded that leaves the backoff as it is when no wait is needed
waitIfNeeded_keepsBackoff(L0, t) == getWaitTime(L0, t)

\* waitIfNeeded() up to its await: the wait taken and the fields afterwards
waitIfNeeded(L0, t) ==
  LET w == getWaitTime(L0, t)
  IN IF w.wait > 0
     THEN [wait |-> w.wait, L |-> w.L]
     ELSE [wait |-> 0,
           L |-> [w.L EXCEPT !.currentBackoffMs = FloorBackoffMs * Scale]]

\* waitIfNeeded() after its sleep: currentBackoffMs * 1.5, capped
increaseBackoff(L) ==
  [L EXCEPT !.currentBackoffMs =
     IF 3 * @ >= 2 * L.maxBackoffMs * Scale THEN L.maxBackoffMs * Scale
     ELSE (3 * @) \div 2]

\* a recordRequest that counts a cache hit against the budget
recordRequest_countsHits(L, t, fromCache) ==
  [L EXCEPT !.requests = Append(@, t),
            !.burstRequests = Append(@, t),
            !.stats.totalRequests = @ + 1]

recordRequest(L, t, fromCache) ==
  IF fromCache
  THEN [L EXCEPT !.stats.cachedRequests = @ + 1]
  ELSE [L EXCEPT !.requests = Append(@, t),
                 !.burstRequests = Append(@, t),
                 !.stats.totalRequests = @ + 1]

\* a handler that also starts the backoff over
handleRateLimitResponse_resetsBackoff(L, rateLimitReset) ==
  [L EXCEPT !.isRateLimited = TRUE,
            !.rateLimitResetTime = rateLimitReset * 1000,
            !.currentBackoffMs = FloorBackoffMs * Scale,
            !.stats.rateLimitHits = Min(@ + 1, MaxRateLimitErrors)]

\* stats.rateLimitHits is counted up to MaxRateLimitErrors
handleRateLimitResponse(L, rateLimitReset) ==
  [L EXCEPT !.isRateLimited = TRUE,
            !.rateLimitResetTime = rateLimitReset * 1000,
            !.stats.rateLimitHits = Min(@ + 1, MaxRateLimitErrors)]

\* setTimeout(ms) takes whole milliseconds
TimerMs(wait) == Max(1, wait \div Scale)

----------------------------------------------------------------------------
(* GitHubClient.makeRequest, one task per concurrent caller.  The code     *)
(* between two awaits runs as one step.                                    *)

NoHeader == 0 - 1
Headers == {[remaining |-> 11, ahead |-> 1], [remaining |-> 10, ahead |-> 1],
            [remaining |-> 10, ahead |-> 0]}
ResetAheadSecs == {0, 1}
OpPayloads == {JSNum(0), JSArr(<<1>>)}
ClientKeys == {"k1"}

\* x-ratelimit-reset, epoch seconds; 0 stands for a missing header
ResetHeader(ahead) == IF ahead = 0 THEN 0 ELSE (now \div 1000) + ahead

\* errors requestFn rejects with: status, whether the message includes
\* 'rate limit', and the identity of the error object
Errors ==
  {[status |-> 403, rateLimitMessage |-> TRUE,  name |-> "RateLimited"],
   [status |-> 403, rateLimitMessage |-> FALSE, name |-> "Forbidden"],
   [status |-> 500, rateLimitMessage |-> TRUE,  name |-> "ServerError"]}

\* the test of the catch block
isRateLimitError(error) == error.status = 403 /\ error.rateLimitMessage

NoResult == [task |-> 0, key |-> NoKey, calls |-> 0, kind |-> "none", value |-> JSNull]
Value(v) == [kind |-> "value", value |-> v]

\* a catch block that swallows the error and returns null
Thrown_swallowed(e) == [kind |-> "value", value |-> JSNull]

Thrown(e) == [kind |-> e, value |-> JSNull]

\* makeRequest returns or throws
Finish(t, k, c, res) ==
  /\ pc' = [pc EXCEPT ![t] = "idle"]
  /\ result' = [task |-> t, key |-> k, calls |-> c,
                kind |-> res.kind, value |-> res.value]
  /\ todo' = [todo EXCEPT ![t] = @ - 1]
  /\ cacheKey' = [cacheKey EXCEPT ![t] = NoKey]
  /\ calls' = [calls EXCEPT ![t] = 0]
  /\ wakeAt' = [wakeAt EXCEPT ![t] = 0]
  /\ stage' = [stage EXCEPT ![t] = "request"]

\* requestFn() is called and awaited
Invoke(t, k, c) ==
  /\ pc' = [pc EXCEPT ![t] = "inflight"]
  /\ cacheKey' = [cacheKey EXCEPT ![t] = k]
  /\ calls' = [calls EXCEPT ![t] = c + 1]
  /\ wakeAt' = [wakeAt EXCEPT ![t] = 0]
  /\ stage' = [stage EXCEPT ![t] = "request"]
  /\ UNCHANGED <<result, todo>>

\* await this.sleep(waitTime)
Sleep(t, k, c, wait, st) ==
  /\ pc' = [pc EXCEPT ![t] = "sleeping"]
  /\ cacheKey' = [cacheKey EXCEPT ![t] = k]
  /\ calls' = [calls EXCEPT ![t] = c]
  /\ wakeAt' = [wakeAt EXCEPT ![t] = now + TimerMs(wait)]
  /\ stage' = [stage EXCEPT ![t] = st]
  /\ UNCHANGED <<result, todo>>

\* makeRequest from its first line to its first pending await, entered with
\* limiter fields L and store S
makeRequest(t, k, L, S, c) ==
  LET g == CacheGet(S, k, now)
      w == waitIfNeeded(L, now)
  IN IF k # NoKey /\ g.ret # JSNull
     THEN /\ rateLimiter' = recordRequest(L, now, TRUE)
          /\ store' = g.store
          /\ Finish(t, k, c, Value(g.ret))
     ELSE /\ rateLimiter' = w.L
          /\ store' = IF k # NoKey THEN g.store ELSE S
          /\ IF w.wait > 0 THEN Sleep(t, k, c, w.wait, "request")
                           ELSE Invoke(t, k, c)

Call(t) ==
  /\ pc[t] = "idle"
  /\ todo[t] > 0
  /\ \E k \in ClientKeys \cup {NoKey} :
       makeRequest(t, k, rateLimiter, store, 0)
  /\ UNCHANGED <<metricVars, runVars, now, requestsThisRun, issued, rateLimitErrors, cacheObs, keyVars, pageVars, detailVars>>

\* the sleep() timer of waitIfNeeded fires
Wake(t) ==
  /\ pc[t] = "sleeping"
  /\ now >= wakeAt[t]
  /\ IF stage[t] = "request"
     THEN /\ rateLimiter' = increaseBackoff(rateLimiter)
          /\ Invoke(t, cacheKey[t], calls[t])
          /\ UNCHANGED store
     ELSE makeRequest(t, cacheKey[t], increaseBackoff(rateLimiter), store, calls[t])
  /\ UNCHANGED <<metricVars, runVars, now, requestsThisRun, issued, rateLimitErrors, cacheObs, keyVars, pageVars, detailVars>>

\* a client that does not look at the headers of a response
handleHeaders_ignored(L, remaining, reset) == L

\* makeRequest on the headers of a response: remaining <= 10 && reset
handleHeaders(L, remaining, reset) ==
  IF remaining # NoHeader /\ remaining <= CriticalRemaining /\ reset # 0
  THEN handleRateLimitResponse(L, reset) ELSE L

\* requestFn resolves
RespondOk(t) ==
  /\ pc[t] = "inflight"
  /\ \E data \in OpPayloads, h \in Headers :
       LET L1 == recordRequest(rateLimiter, now, FALSE)
           reset == ResetHeader(h.ahead)
           L2 == handleHeaders(L1, h.remaining, reset)
       IN /\ rateLimiter' = L2
          /\ store' = IF cacheKey[t] # NoKey /\ Truthy(data)
                      THEN CacheSet(store, cacheKey[t], data, now) ELSE store
          /\ Finish(t, cacheKey[t], calls[t], Value(data))
  /\ requestsThisRun' = requestsThisRun + 1
  /\ issued' = Append(issued, now)
  /\ UNCHANGED <<metricVars, runVars, now, rateLimitErrors, cacheObs, keyVars, pageVars, detailVars>>

\* a client that records the request before it knows the outcome
recordRejected_counts(L, t) == recordRequest(L, t, FALSE)

\* requestFn rejects: control leaves the try block before recordRequest
recordRejected(L, t) == L

\* requestFn rejects with status 403 and a 'rate limit' message
RespondRateLimit(t) ==
  /\ pc[t] = "inflight"
  /\ rateLimitErrors < MaxRateLimitErrors
  /\ rateLimitErrors' = rateLimitErrors + 1
  /\ \E error \in {e \in Errors : isRateLimitError(e)}, ahead \in ResetAheadSecs :
       LET reset == ResetHeader(ahead)
           L0 == recordRejected(rateLimiter, now)
           L1 == IF reset # 0 THEN handleRateLimitResponse(L0, reset)
                 ELSE L0
           w == waitIfNeeded(L1, now)
       IN IF w.wait > 0
          THEN /\ rateLimiter' = w.L
               /\ Sleep(t, cacheKey[t], calls[t], w.wait, "retry")
               /\ UNCHANGED store
          ELSE makeRequest(t, cacheKey[t], w.L, store, calls[t])
  /\ UNCHANGED <<metricVars, runVars, now, requestsThisRun, issued, cacheObs, keyVars, pageVars, detailVars>>

\* requestFn rejects with any other error
RespondError(t) ==
  /\ pc[t] = "inflight"
  /\ \E error \in {e \in Errors : ~isRateLimitError(e)} :
       Finish(t, cacheKey[t], calls[t], Thrown(error.name))
  /\ rateLimiter' = recordRejected(rateLimiter, now)
  /\ UNCHANGED <<metricVars, runVars, now, requestsThisRun, issued, store, rateLimitErrors,
                 cacheObs, keyVars, pageVars, detailVars>>

TickSteps == {MinuteMs}

Sleepers == {t \in Tasks : pc[t] = "sleeping" /\ wakeAt[t] > now}

\* the clock advances, by a fixed step or up to the next timer
Tick ==
  /\ \E t \in TickSteps \cup {wakeAt[s] - now : s \in Sleepers} :
       /\ now + t <= MaxNow
       /\ now' = now + t
  /\ UNCHANGED <<metricVars, runVars, rateLimiter, requestsThisRun, issued, store, taskVars, rateLimitErrors,
                 cacheObs, keyVars, pageVars, detailVars>>

EmptyStore == [k \in {} |-> 0]

\* The callers of makeRequest: the fetches that analyzeRepository starts
\* together under Promise.all (ReqsPerTask requests each), or one caller
\* issuing SeqRequests requests one after the other, as processPRs does.
Workloads ==
  {[t \in Tasks |-> ReqsPerTask],
   [t \in Tasks |-> IF t = 1 THEN SeqRequests ELSE 0]}

NoCacheOp ==
  [op |-> "none", task |-> 0, key |-> NoKey, kind |-> "value", ret |-> JSNull,
   fetched |-> JSNull, fetches |-> 0, evicted |-> FALSE, at |-> 0]
NotWritten == [set |-> FALSE, payload |-> JSNull, at |-> 0]
NoArgs == [type |-> "", owner |-> "", repo |-> "", params |-> <<>>]
NoWindow == [since |-> 0, until |-> 0]
NoFilters == [excludeArchived |-> FALSE, excludeForks |-> FALSE, minSize |-> 0]
NoPartial == [prDetails |-> JSNull, reviews |-> <<>>]
NoProcessed == [kind |-> "none", metrics |-> <<>>]
NotStored == [set |-> FALSE, at |-> 0, detail |-> JSNull]
NoListing == [endpoint |-> "none", options |-> NoFilters, window |-> NoWindow]
NoFetch ==
  [task |-> 0, window |-> NoWindow, kind |-> "none", list |-> JSNull,
   requests |-> 0, cachedAt |-> 0]

\* the two periods of analyzeRepository
Periods == {"current", "previous"}
NoPeriods == [p \in Periods |-> <<>>]
NotAnalysed == [kind |-> "none", metrics |-> <<>>, raised |-> 0]
NotCompared == [kind |-> "none"]

\* main has not run; no option is given
NotRun == [kind |-> "none", currentPeriodDays |-> 0, previousPeriodDays |-> 0, gapDays |-> 0]
NoOptions == [period |-> "quarterly", days |-> <<>>, compareDays |-> <<>>, gapDays |-> <<"0">>]

\* the state after `new GitHubClient(options)`, with the given callers,
\* but for the contents of the cache directory
ClientFields(options, workload) ==
  /\ now = 0
  /\ rateLimiter = NewRateLimiter(options)
  /\ requestsThisRun = 0
  /\ issued = <<>>
  /\ rateLimitErrors = 0
  /\ pc = [t \in Tasks |-> "idle"]
  /\ cacheKey = [t \in Tasks |-> NoKey]
  /\ calls = [t \in Tasks |-> 0]
  /\ wakeAt = [t \in Tasks |-> 0]
  /\ stage = [t \in Tasks |-> "request"]
  /\ result = NoResult
  /\ todo = workload
  /\ cacheOp = NoCacheOp
  /\ written = [k \in Keys |-> NotWritten]
  /\ window = [t \in Tasks |-> NoWindow]
  /\ page = [t \in Tasks |-> 0]
  /\ pulls = [t \in Tasks |-> <<>>]
  /\ fetched = NoFetch
  /\ listing = [t \in Tasks |-> NoListing]
  /\ batch = <<>>
  /\ index = 0
  /\ prMetrics = <<>>
  /\ partial = NoPartial
  /\ outcomes = <<>>
  /\ processed = NoProcessed
  /\ cachedDetails = [ref \in PRRefs |-> NotStored]
  /\ analysed = [p \in Periods |-> NotAnalysed]
  /\ report = NotCompared
  /\ run = NotRun

\* the client starts on an empty cache directory
ClientInit(options, workload) ==
  /\ ClientFields(options, workload)
  /\ store = EmptyStore

Init ==
  /\ \E workload \in Workloads :
       ClientInit([requestsPerHour |-> DefaultRequestsPerHour,
                   burstLimit |-> SmallBurstLimit,
                   maxBackoffMs |-> DefaultMaxBackoffMs], workload)
  /\ keyArgs = <<NoArgs, NoArgs>>
  /\ keyOut = <<>>
  /\ source = <<>>
  /\ periods = NoPeriods
  /\ argv = NoOptions

\* One caller working against a small hourly budget
InitHourly ==
  /\ ClientInit([requestsPerHour |-> SmallRequestsPerHour,
                 burstLimit |-> DefaultBurstLimit,
                 maxBackoffMs |-> DefaultMaxBackoffMs],
                [t \in Tasks |-> IF t = 1 THEN HourlyRequests ELSE 0])
  /\ keyArgs = <<NoArgs, NoArgs>>
  /\ keyOut = <<>>
  /\ source = <<>>
  /\ periods = NoPeriods
  /\ argv = NoOptions

Next ==
  \/ \E t \in Tasks : Call(t)
  \/ \E t \in Tasks : Wake(t)
  \/ \E t \in Tasks : RespondOk(t)
  \/ \E t \in Tasks : RespondRateLimit(t)
  \/ \E t \in Tasks : RespondError(t)
  \/ Tick

Spec == Init /\ [][Next]_vars

SpecHourly == InitHourly /\ [][Next]_vars

\* One caller working against a small hourly budget, with the backoff
\* ceiling that `new RateLimiter({maxBackoffMs})` was given
Ceilings == {LowCeilingMs, MidCeilingMs, DefaultMaxBackoffMs}

InitCeiling ==
  /\ \E ceiling \in Ceilings :
       ClientInit([requestsPerHour |-> SmallRequestsPerHour,
                   burstLimit |-> DefaultBurstLimit,
                   maxBackoffMs |-> ceiling],
                  [t \in Tasks |-> IF t = 1 THEN HourlyRequests ELSE 0])
  /\ keyArgs = <<NoArgs, NoArgs>>
  /\ keyOut = <<>>
  /\ source = <<>>
  /\ periods = NoPeriods
  /\ argv = NoOptions

SpecCeiling == InitCeiling /\ [][Next]_vars

----------------------------------------------------------------------------
(* CacheManager under its callers: get and set called directly, as         *)
(* getPullRequestDetails does, and getOrSet with a fetchFunction that is   *)
(* awaited, so that other callers run while it is pending.                 *)

\* evicted: the operation removed the file of its key
CacheOp(o, t, k, kd, r, f, n) ==
  [op |-> o, task |-> t, key |-> k, kind |-> kd, ret |-> r, fetched |-> f,
   fetches |-> n, evicted |-> (k \in DOMAIN store /\ k \notin DOMAIN store'),
   at |-> now]

\* the history forgets the keys whose file this step removed
Forget(S2) ==
  [k \in Keys |-> IF k \in DOMAIN store /\ k \notin DOMAIN S2
                  THEN NotWritten ELSE written[k]]

Set(k, v) ==
  /\ store' = CacheSet(store, k, v, now)
  /\ written' = [written EXCEPT ![k] = [set |-> TRUE, payload |-> v, at |-> now]]
  /\ cacheOp' = CacheOp("set", 0, k, "value", v, JSNull, 0)
  /\ UNCHANGED <<metricVars, runVars, now, clientVars, pc, cacheKey, calls, keyVars, pageVars, detailVars>>

Get(k) ==
  LET g == CacheGet(store, k, now)
  IN /\ store' = g.store
     /\ written' = Forget(g.store)
     /\ cacheOp' = CacheOp("get", 0, k, "value", g.ret, JSNull, 0)
     /\ UNCHANGED <<metricVars, runVars, now, clientVars, pc, cacheKey, calls, keyVars, pageVars, detailVars>>

\* getOrSet up to its return or to the pending fetchFunction
GetOrSet(t, k) ==
  /\ pc[t] = "idle"
  /\ LET g == getOrSetCached(store, k, now)
     IN /\ store' = g.store
        /\ written' = Forget(g.store)
        /\ IF g.ret # JSNull
           THEN /\ cacheOp' = CacheOp("getOrSet", t, k, "value", g.ret, JSNull, 0)
                /\ UNCHANGED <<pc, cacheKey, calls>>
           ELSE /\ pc' = [pc EXCEPT ![t] = "fetching"]
                /\ cacheKey' = [cacheKey EXCEPT ![t] = k]
                /\ calls' = [calls EXCEPT ![t] = @ + 1]
                /\ UNCHANGED cacheOp
  /\ UNCHANGED <<metricVars, runVars, now, clientVars, keyVars, pageVars, detailVars>>

\* fetchFunction resolves with data
FetchResolve(t, data) ==
  /\ pc[t] = "fetching"
  /\ store' = getOrSetStored(store, cacheKey[t], data, now)
  /\ written' = [written EXCEPT ![cacheKey[t]] =
                   [set |-> TRUE, payload |-> data, at |-> now]]
  /\ cacheOp' = CacheOp("getOrSet", t, cacheKey[t], "value", data, data, calls[t])
  /\ pc' = [pc EXCEPT ![t] = "idle"]
  /\ cacheKey' = [cacheKey EXCEPT ![t] = NoKey]
  /\ calls' = [calls EXCEPT ![t] = 0]
  /\ UNCHANGED <<metricVars, runVars, now, clientVars, keyVars, pageVars, detailVars>>

\* fetchFunction rejects: the error leaves getOrSet
FetchReject(t) ==
  /\ pc[t] = "fetching"
  /\ store' = getOrSetThrown(store, cacheKey[t], now)
  /\ written' = Forget(store')
  /\ cacheOp' = CacheOp("getOrSet", t, cacheKey[t], "error", JSNull, JSNull, calls[t])
  /\ pc' = [pc EXCEPT ![t] = "idle"]
  /\ cacheKey' = [cacheKey EXCEPT ![t] = NoKey]
  /\ calls' = [calls EXCEPT ![t] = 0]
  /\ UNCHANGED <<metricVars, runVars, now, clientVars, keyVars, pageVars, detailVars>>

CacheTickSteps == {MinuteMs \div 2, MinuteMs \div 2 + 1000}

TickCache ==
  /\ \E t \in CacheTickSteps :
       /\ now + t <= MaxNow
       /\ now' = now + t
  /\ UNCHANGED <<metricVars, runVars, store, clientVars, pc, cacheKey, calls, cacheObs, keyVars, pageVars, detailVars>>

InitCache ==
  /\ ClientInit([requestsPerHour |-> DefaultRequestsPerHour,
                 burstLimit |-> DefaultBurstLimit,
                 maxBackoffMs |-> DefaultMaxBackoffMs], [t \in Tasks |-> 0])
  /\ keyArgs = <<NoArgs, NoArgs>>
  /\ keyOut = <<>>
  /\ source = <<>>
  /\ periods = NoPeriods
  /\ argv = NoOptions

NextCache ==
  \/ \E k \in Keys, v \in Payloads : Set(k, v)
  \/ \E k \in Keys : Get(k)
  \/ \E t \in Tasks, k \in Keys : GetOrSet(t, k)
  \/ \E t \in Tasks, v \in Payloads : FetchResolve(t, v)
  \/ \E t \in Tasks : FetchReject(t)
  \/ TickCache

SpecCache == InitCache /\ [][NextCache]_vars

----------------------------------------------------------------------------
(* CacheManager.cleanup on a cache directory that holds files left by      *)
(* earlier runs.  A file that is not the text of {timestamp, data} is told *)
(* by its timestamp: Unparsable when JSON.parse throws on the text,        *)
(* NoTimestamp when the text parses to an object without a timestamp.      *)

Unparsable == 0 - 2
NoTimestamp == 0 - 1

LeftFiles ==
  {[timestamp |-> 0, data |-> JSONStringify(v)] : v \in Payloads}
    \cup {[timestamp |-> Unparsable, data |-> <<>>],
          [timestamp |-> NoTimestamp, data |-> JSONStringify(JSArr(<<1>>))]}

LeftStores == UNION {[ks -> LeftFiles] : ks \in SUBSET Keys}

\* the loop body of cleanup: whether the file is unlinked.  With the
\* timestamp undefined, Date.now() - timestamp is NaN and the test is false.
cleanupRemoves(file, t) ==
  IF file.timestamp = Unparsable THEN TRUE
  ELSE IF file.timestamp = NoTimestamp THEN FALSE
  ELSE isExpired(file.timestamp, t)

\* cleanup(): the store afterwards
cleanup(S, t) ==
  IF ~enabled THEN S
  ELSE [k \in {x \in DOMAIN S : ~cleanupRemoves(S[x], t)} |-> S[k]]

Cleanup ==
  /\ store' = cleanup(store, now)
  /\ cacheOp' = [NoCacheOp EXCEPT !.op = "cleanup", !.at = now,
                                  !.evicted = (store' # store)]
  /\ written' = Forget(store')
  /\ UNCHANGED <<metricVars, runVars, now, clientVars, pc, cacheKey, calls, keyVars, pageVars, detailVars>>

InitSweep ==
  /\ ClientFields([requestsPerHour |-> DefaultRequestsPerHour,
                   burstLimit |-> DefaultBurstLimit,
                   maxBackoffMs |-> DefaultMaxBackoffMs], [t \in Tasks |-> 0])
  /\ store \in LeftStores
  /\ keyArgs = <<NoArgs, NoArgs>>
  /\ keyOut = <<>>
  /\ source = <<>>
  /\ periods = NoPeriods
  /\ argv = NoOptions

NextSweep ==
  \/ Cleanup
  \/ \E k \in Keys, v \in Payloads : Set(k, v)
  \/ TickCache

SpecSweep == InitSweep /\ [][NextSweep]_vars

----------------------------------------------------------------------------
(* Cache keys.  An object is the sequence of its <<name, value>> properties *)
(* in insertion order, which is the order JSON.stringify prints them in.   *)

RECURSIVE PropTokens(_)
PropTokens(obj) ==
  IF obj = <<>> THEN <<>>
  ELSE IF Len(obj) = 1 THEN <<obj[1][1], ":", obj[1][2]>>
  ELSE <<obj[1][1], ":", obj[1][2], ",">> \o PropTokens(Tail(obj))

StringifyObject(obj) == <<"{">> \o PropTokens(obj) \o <<"}">>

\* the digest of a text, taken to be different for different texts
MD5(text) == text

generateKey(data) == MD5(StringifyObject(data))

\* {...obj, name: value}: an existing property keeps its place
SetProp(obj, name, value) ==
  IF \E i \in 1..Len(obj) : obj[i][1] = name
  THEN [i \in 1..Len(obj) |-> IF obj[i][1] = name THEN <<name, value>> ELSE obj[i]]
  ELSE Append(obj, <<name, value>>)

RECURSIVE Spread(_, _)
Spread(obj, params) ==
  IF params = <<>> THEN obj
  ELSE Spread(SetProp(obj, params[1][1], params[1][2]), Tail(params))

paginatedKey(type, owner, repo, params) ==
  generateKey(Spread(<<<<"type", type>>, <<"owner", owner>>, <<"repo", repo>>>>,
                     params))

\* a key for the details of a pull request that leaves updated_at out
prDetailsKey_withoutUpdatedAt(owner, repo, prNumber, prUpdatedAt) ==
  generateKey(<<<<"type", "pr-details">>, <<"owner", owner>>, <<"repo", repo>>,
                <<"prNumber", ToString(prNumber)>>>>)

prDetailsKey(owner, repo, prNumber, prUpdatedAt) ==
  generateKey(<<<<"type", "pr-details">>, <<"owner", owner>>, <<"repo", repo>>,
                <<"prNumber", ToString(prNumber)>>, <<"prUpdatedAt", prUpdatedAt>>>>)

ParamNames == {"since", "until", "state"}
ParamValues == {"2024-01-01", "closed"}
MaxParams == 2
KeyTypes == {"pulls", "commits"}

\* parameter objects: every property name at most once
ParamObjects ==
  UNION {{p \in [1..n -> ParamNames \X ParamValues] :
            \A i, j \in 1..n : p[i][1] = p[j][1] => i = j} : n \in 0..MaxParams}

KeyArgs == [type : KeyTypes, owner : {"org"}, repo : {"web-app"}, params : ParamObjects]

ComputeKeys ==
  /\ keyOut = <<>>
  /\ keyOut' = [i \in 1..2 |-> paginatedKey(keyArgs[i].type, keyArgs[i].owner,
                                            keyArgs[i].repo, keyArgs[i].params)]
  /\ UNCHANGED <<metricVars, runVars, now, store, clientVars, pc, cacheKey, calls, cacheObs, keyArgs,
                 pageVars, detailVars>>

InitKey ==
  /\ ClientInit([requestsPerHour |-> DefaultRequestsPerHour,
                 burstLimit |-> DefaultBurstLimit,
                 maxBackoffMs |-> DefaultMaxBackoffMs], [t \in Tasks |-> 0])
  /\ keyArgs \in KeyArgs \X KeyArgs
  /\ keyOut = <<>>
  /\ source = <<>>
  /\ periods = NoPeriods
  /\ argv = NoOptions

NextKey == ComputeKeys

SpecKey == InitKey /\ [][NextKey]_vars

----------------------------------------------------------------------------
(* GitHubClient.getPullRequests: the list endpoint is read page by page    *)
(* inside cache.getOrSet.  PerPage stands for per_page: 100.  The budgets  *)
(* are the defaults, which the few page requests made here never exhaust,  *)
(* so that every makeRequest goes from waitIfNeeded straight to requestFn; *)
(* the response headers report an ample remaining quota.                   *)

Sources == UNION {[1..n -> CreatedAts] : n \in 0..MaxRecords}
Windows == {[since |-> SinceMs, until |-> UntilMs]}

\* octokit.pulls.list({per_page, page}): the page-th slice of the source
PageOf(src, p) ==
  LET lo == (p - 1) * PerPage + 1
      hi == Min(p * PerPage, Len(src))
  IN [i \in 1..Max(0, (hi - lo) + 1) |-> PullRequest((lo + i) - 1, src[(lo + i) - 1])]

\* date.toISOString().split('T')[0]: the UTC day of the time
ISODate(time) == ToString(time \div DayMs)

pullsKey(w) ==
  paginatedKey("pulls", "org", "web-app",
               <<<<"since", ISODate(w.since)>>, <<"until", ISODate(w.until)>>,
                 <<"state", "closed">>>>)

\* the filter of getPullRequests
inWindow(pr, w) == pr.created_at >= w.since /\ pr.created_at <= w.until

filterPulls(data, w) == SelectSeq(data, LAMBDA pr : inWindow(pr, w))

\* getPullRequests returns or throws
FinishFetch(t, w, kind, list, requests, cachedAt) ==
  /\ fetched' = [task |-> t, window |-> w, kind |-> kind, list |-> list,
                 requests |-> requests, cachedAt |-> cachedAt]
  /\ pc' = [pc EXCEPT ![t] = "idle"]
  /\ todo' = [todo EXCEPT ![t] = @ - 1]
  /\ window' = [window EXCEPT ![t] = NoWindow]
  /\ page' = [page EXCEPT ![t] = 0]
  /\ pulls' = [pulls EXCEPT ![t] = <<>>]
  /\ calls' = [calls EXCEPT ![t] = 0]

\* getPullRequests up to its return from the cache or to its first page request
GetPullRequests(t, w) ==
  /\ pc[t] = "idle"
  /\ todo[t] > 0
  /\ LET g == getOrSetCached(store, pullsKey(w), now)
     IN /\ store' = g.store
        /\ IF g.ret # JSNull
           THEN /\ FinishFetch(t, w, "value", g.ret, 0, store[pullsKey(w)].timestamp)
                /\ UNCHANGED rateLimiter
           ELSE /\ pc' = [pc EXCEPT ![t] = "paging"]
                /\ window' = [window EXCEPT ![t] = w]
                /\ page' = [page EXCEPT ![t] = 1]
                /\ pulls' = [pulls EXCEPT ![t] = <<>>]
                /\ calls' = [calls EXCEPT ![t] = 1]
                /\ rateLimiter' = waitIfNeeded(rateLimiter, now).L
                /\ UNCHANGED <<fetched, todo>>
  /\ UNCHANGED <<metricVars, runVars, now, requestsThisRun, issued, rateLimitErrors, cacheKey, wakeAt,
                 stage, result, cacheObs, keyVars, source, listing, detailVars>>

\* a page request resolves: one turn of the while loop
PageResolve(t) ==
  /\ pc[t] = "paging"
  /\ LET data == PageOf(source, page[t])
         filteredPulls == filterPulls(data, window[t])
         all == pulls[t] \o filteredPulls
         hasMore == Len(data) = PerPage /\ Len(filteredPulls) > 0
         L1 == recordRequest(rateLimiter, now, FALSE)
     IN IF hasMore
        THEN /\ page' = [page EXCEPT ![t] = @ + 1]
             /\ pulls' = [pulls EXCEPT ![t] = all]
             /\ calls' = [calls EXCEPT ![t] = @ + 1]
             /\ rateLimiter' = waitIfNeeded(L1, now).L
             /\ UNCHANGED <<store, fetched, pc, todo, window>>
        ELSE /\ rateLimiter' = L1
             /\ store' = getOrSetStored(store, pullsKey(window[t]), JSObjs(all), now)
             /\ FinishFetch(t, window[t], "value", JSObjs(all), calls[t], now)
  /\ requestsThisRun' = requestsThisRun + 1
  /\ issued' = Append(issued, now)
  /\ UNCHANGED <<metricVars, runVars, now, rateLimitErrors, cacheKey, wakeAt, stage, result, cacheObs,
                 keyVars, source, listing, detailVars>>

\* a page request fails: the error leaves makeRequest, the loop and getOrSet
PageReject(t) ==
  /\ pc[t] = "paging"
  /\ store' = getOrSetThrown(store, pullsKey(window[t]), now)
  /\ FinishFetch(t, window[t], "error", JSNull, calls[t], 0)
  /\ UNCHANGED <<metricVars, runVars, now, rateLimiter, requestsThisRun, issued, rateLimitErrors, cacheKey,
                 wakeAt, stage, result, cacheObs, keyVars, source, listing, detailVars>>

TickPages ==
  /\ \E t \in CacheTickSteps :
       /\ now + t <= MaxNow
       /\ now' = now + t
  /\ UNCHANGED <<metricVars, runVars, store, clientVars, pc, cacheKey, calls, cacheObs, keyVars, pageVars, detailVars>>

\* one caller, as analyzeRepository is for one period, calling getPullRequests
\* MaxFetches times
InitPages ==
  /\ ClientInit([requestsPerHour |-> DefaultRequestsPerHour,
                 burstLimit |-> DefaultBurstLimit,
                 maxBackoffMs |-> DefaultMaxBackoffMs],
                [t \in Tasks |-> IF t = 1 THEN MaxFetches ELSE 0])
  /\ keyArgs = <<NoArgs, NoArgs>>
  /\ keyOut = <<>>
  /\ source \in Sources
  /\ periods = NoPeriods
  /\ argv = NoOptions

NextPages ==
  \/ \E t \in Tasks, w \in Windows : GetPullRequests(t, w)
  \/ \E t \in Tasks : PageResolve(t)
  \/ \E t \in Tasks : PageReject(t)
  \/ TickPages

SpecPages == InitPages /\ [][NextPages]_vars

----------------------------------------------------------------------------
(* GitHubClient.getCommits and GitHubClient.listRepositories, one caller.  *)
(* The source is a finite collection, or one that repeats its records and  *)
(* so answers every page request with a full page; against the latter the  *)
(* model follows the loop up to page MaxPages.                             *)

\* what the filter of listRepositories reads of a repository
RepoKinds ==
  {[archived |-> FALSE, fork |-> FALSE, size |-> 10],
   [archived |-> TRUE,  fork |-> FALSE, size |-> 10],
   [archived |-> FALSE, fork |-> TRUE,  size |-> 10],
   [archived |-> FALSE, fork |-> FALSE, size |-> 1]}

ListSources ==
  {[records |-> r, repeats |-> FALSE] :
     r \in UNION {[1..n -> RepoKinds] : n \in 0..(PerPage + 1)}}
  \cup {[records |-> <<kind>>, repeats |-> TRUE] : kind \in RepoKinds}

\* options of listRepositories: none, and each filter alone
ListOptions ==
  {NoFilters,
   [NoFilters EXCEPT !.excludeArchived = TRUE],
   [NoFilters EXCEPT !.excludeForks = TRUE],
   [NoFilters EXCEPT !.minSize = 5]}

\* a commit or a repository as the API returns it
Listed(n, kind) ==
  [name |-> n, archived |-> kind.archived, fork |-> kind.fork, size |-> kind.size]

\* octokit.repos.listCommits / listForOrg({per_page, page})
ListPageOf(src, p) ==
  LET lo == (p - 1) * PerPage + 1
      hi == Min(p * PerPage, Len(src.records))
  IN IF src.repeats
     THEN [i \in 1..PerPage |->
             Listed((lo + i) - 1,
                    src.records[(((lo + i) - 2) % Len(src.records)) + 1])]
     ELSE [i \in 1..Max(0, (hi - lo) + 1) |->
             Listed((lo + i) - 1, src.records[(lo + i) - 1])]

commitsKey(w) ==
  paginatedKey("commits", "org", "web-app",
               <<<<"since", ISODate(w.since)>>, <<"until", ISODate(w.until)>>>>)

\* the third argument is the object {type: 'all', filters: options}
reposKey(options) ==
  paginatedKey("org-repos", "org",
               ToString([type |-> "all", filters |-> options]), <<>>)

listingKey(l) ==
  IF l.endpoint = "commits" THEN commitsKey(l.window) ELSE reposKey(l.options)

\* the filter of listRepositories
keepsRepo(repo, options) ==
  /\ ~(options.excludeArchived /\ repo.archived)
  /\ ~(options.excludeForks /\ repo.fork)
  /\ ~(options.minSize # 0 /\ repo.size < options.minSize)

\* what a page adds to the list: getCommits pushes the page as it is
pushed(data, l) ==
  IF l.endpoint = "commits" THEN data
  ELSE SelectSeq(data, LAMBDA repo : keepsRepo(repo, l.options))

\* the list returned; listRepositories maps its records to a summary
NamesOf(list) == JSNames([i \in 1..Len(list) |-> list[i].name])

\* a loop that goes on until a page is empty
lastPage_whenEmpty(data) == Len(data) = 0

\* `if (data.length < 100) break`
lastPage(data) == Len(data) < PerPage

\* getCommits / listRepositories up to the return from the cache or to the
\* first page request
ListCall(t, l) ==
  /\ LET g == getOrSetCached(store, listingKey(l), now)
     IN /\ store' = g.store
        /\ IF g.ret # JSNull
           THEN /\ FinishFetch(t, l.window, "value", g.ret, 0,
                               store[listingKey(l)].timestamp)
                /\ UNCHANGED <<rateLimiter, listing>>
           ELSE /\ pc' = [pc EXCEPT ![t] = "listing"]
                /\ listing' = [listing EXCEPT ![t] = l]
                /\ page' = [page EXCEPT ![t] = 1]
                /\ pulls' = [pulls EXCEPT ![t] = <<>>]
                /\ calls' = [calls EXCEPT ![t] = 1]
                /\ rateLimiter' = waitIfNeeded(rateLimiter, now).L
                /\ UNCHANGED <<fetched, todo, window>>
  /\ UNCHANGED <<metricVars, runVars, now, requestsThisRun, issued, rateLimitErrors, cacheKey, wakeAt,
                 stage, result, cacheObs, keyVars, source, detailVars>>

GetCommits(t, w) ==
  /\ pc[t] = "idle"
  /\ todo[t] > 0
  /\ ListCall(t, [endpoint |-> "commits", options |-> NoFilters, window |-> w])

ListRepositories(t, options) ==
  /\ pc[t] = "idle"
  /\ todo[t] > 0
  /\ ListCall(t, [endpoint |-> "org-repos", options |-> options,
                  window |-> NoWindow])

\* a page request resolves: one turn of the while loop
ListResolve(t) ==
  /\ pc[t] = "listing"
  /\ LET data == ListPageOf(source, page[t])
         all == pulls[t] \o pushed(data, listing[t])
         L1 == recordRequest(rateLimiter, now, FALSE)
     IN IF lastPage(data)
        THEN /\ rateLimiter' = L1
             /\ store' = getOrSetStored(store, listingKey(listing[t]), NamesOf(all), now)
             /\ FinishFetch(t, listing[t].window, "value", NamesOf(all), calls[t], now)
             /\ listing' = [listing EXCEPT ![t] = NoListing]
        ELSE /\ page[t] < MaxPages
             /\ page' = [page EXCEPT ![t] = @ + 1]
             /\ pulls' = [pulls EXCEPT ![t] = all]
             /\ calls' = [calls EXCEPT ![t] = @ + 1]
             /\ rateLimiter' = waitIfNeeded(L1, now).L
             /\ UNCHANGED <<store, fetched, pc, todo, window, listing>>
  /\ requestsThisRun' = requestsThisRun + 1
  /\ issued' = Append(issued, now)
  /\ UNCHANGED <<metricVars, runVars, now, rateLimitErrors, cacheKey, wakeAt, stage, result, cacheObs,
                 keyVars, source, detailVars>>

\* a page request fails: the error leaves makeRequest, the loop and getOrSet
ListReject(t) ==
  /\ pc[t] = "listing"
  /\ store' = getOrSetThrown(store, listingKey(listing[t]), now)
  /\ FinishFetch(t, listing[t].window, "error", JSNull, calls[t], 0)
  /\ listing' = [listing EXCEPT ![t] = NoListing]
  /\ UNCHANGED <<metricVars, runVars, now, rateLimiter, requestsThisRun, issued, rateLimitErrors, cacheKey,
                 wakeAt, stage, result, cacheObs, keyVars, source, detailVars>>

\* the clock moves past the age at which a cached list expires
TickListing ==
  /\ now + MaxNow <= MaxNow
  /\ now' = now + MaxNow
  /\ UNCHANGED <<metricVars, runVars, store, clientVars, pc, cacheKey, calls, cacheObs, keyVars, pageVars,
                 detailVars>>

InitListing ==
  /\ ClientInit([requestsPerHour |-> DefaultRequestsPerHour,
                 burstLimit |-> DefaultBurstLimit,
                 maxBackoffMs |-> DefaultMaxBackoffMs],
                [t \in Tasks |-> IF t = 1 THEN MaxFetches ELSE 0])
  /\ keyArgs = <<NoArgs, NoArgs>>
  /\ keyOut = <<>>
  /\ source \in ListSources
  /\ periods = NoPeriods
  /\ argv = NoOptions

NextListing ==
  \/ \E t \in Tasks, w \in Windows : GetCommits(t, w)
  \/ \E t \in Tasks, options \in ListOptions : ListRepositories(t, options)
  \/ \E t \in Tasks : ListResolve(t)
  \/ \E t \in Tasks : ListReject(t)
  \/ TickListing

SpecListing == InitListing /\ [][NextListing]_vars

----------------------------------------------------------------------------
(* MetricsAnalyzer (src/src/metrics-analyzer.js)                           *)
(* A JavaScript number is the exact fraction n/d with d > 0; the values    *)
(* that are not numbers have d <= 0.                                       *)

NaN == [n |-> 0, d |-> 0]
undefined == [n |-> 0, d |-> 0 - 1]
null == [n |-> 0, d |-> 0 - 2]
Num(k) == [n |-> k, d |-> 1]
IsNumber(x) == x.d > 0

Abs(k) == IF k < 0 THEN 0 - k ELSE k

RECURSIVE GCD(_, _)
GCD(a, b) == IF b = 0 THEN a ELSE GCD(b, a % b)

\* the fraction n/d in lowest terms, d > 0
Fraction(n, d) ==
  LET g == GCD(Abs(n), d)
  IN [n |-> IF n < 0 THEN 0 - (Abs(n) \div g) ELSE n \div g, d |-> d \div g]

\* a + b
Plus(a, b) ==
  IF ~IsNumber(a) \/ ~IsNumber(b) THEN NaN
  ELSE Fraction(a.n * b.d + b.n * a.d, a.d * b.d)

\* -a
Negate(a) == IF IsNumber(a) THEN [n |-> 0 - a.n, d |-> a.d] ELSE NaN

\* a / b for a divisor that is not zero
DividedBy(a, b) ==
  IF ~IsNumber(a) \/ ~IsNumber(b) \/ b.n = 0 THEN NaN
  ELSE IF b.n > 0 THEN Fraction(a.n * b.d, a.d * b.n)
       ELSE Fraction(0 - a.n * b.d, a.d * (0 - b.n))

\* a * k for an integer k >= 0
Times(a, k) == IF IsNumber(a) THEN Fraction(a.n * k, a.d) ELSE NaN

\* !a
Falsy(a) == ~IsNumber(a) \/ a.n = 0

\* a < k and a > 0 are false when a is not a number
LessThan(a, k) == IsNumber(a) /\ a.n < k * a.d
Positive(a) == IsNumber(a) /\ a.n > 0

\* Math.abs
MathAbs(a) == IF IsNumber(a) THEN [n |-> Abs(a.n), d |-> a.d] ELSE NaN

RECURSIVE Sum(_)
Sum(arr) == IF arr = <<>> THEN Num(0) ELSE Plus(Head(arr), Sum(Tail(arr)))

average(arr) ==
  IF Len(arr) > 0 THEN DividedBy(Sum(arr), Num(Len(arr))) ELSE Num(0)

\* a list argument or field: an array, or undefined
List(s) == [defined |-> TRUE, items |-> s]
undefinedList == [defined |-> FALSE, items |-> <<>>]

\* a field that is not there: a user without object, a size without number
NoUser == ""
Missing == 0 - 1

\* date-fns differenceInHours: full hours between two dates, towards zero
differenceInHours(dateLeft, dateRight) ==
  LET diff == dateLeft - dateRight
  IN IF diff >= 0 THEN diff \div HourMs ELSE 0 - ((0 - diff) \div HourMs)

\* analyzePullRequest returns null for a pull request that is not merged
NullMetric ==
  [kind |-> "null", number |-> 0, author |-> NoUser, cycleTimeHours |-> null,
   reviewTimeHours |-> null, totalChanges |-> null, labels |-> <<>>]

\* analyzePullRequest throws: a property of undefined is read
TypeError ==
  [kind |-> "TypeError", number |-> 0, author |-> NoUser, cycleTimeHours |-> null,
   reviewTimeHours |-> null, totalChanges |-> null, labels |-> <<>>]

\* the submitted_at of the approving reviews
Approvals(reviews) ==
  {reviews[i].submitted_at : i \in {j \in 1..Len(reviews) : reviews[j].state = "APPROVED"}}

\* the metric of a pull request; of its fields, title, createdAt, mergedAt,
\* additions, deletions and changedFiles are left out
analyzePullRequest(pr, reviews) ==
  IF pr.merged_at = 0 THEN NullMetric
  ELSE IF ~reviews.defined THEN TypeError
  ELSE IF pr.user = NoUser \/ ~pr.labels.defined THEN TypeError
  ELSE LET approved == Approvals(reviews.items)
           first == CHOOSE t \in approved : \A u \in approved : t <= u
       IN [kind |-> "metric",
           number |-> pr.number,
           author |-> pr.user,
           cycleTimeHours |-> Num(differenceInHours(pr.merged_at, pr.created_at)),
           reviewTimeHours |-> IF approved = {} THEN null
                               ELSE Num(differenceInHours(first, pr.created_at)),
           totalChanges |-> IF pr.additions = Missing \/ pr.deletions = Missing
                            THEN NaN ELSE Num(pr.additions + pr.deletions),
           labels |-> pr.labels.items]

\* the values of one field of the metrics that are not null
RECURSIVE cycleTimesOf(_)
cycleTimesOf(metrics) ==
  IF metrics = <<>> THEN <<>>
  ELSE (IF Head(metrics).cycleTimeHours # null
        THEN <<Head(metrics).cycleTimeHours>> ELSE <<>>) \o cycleTimesOf(Tail(metrics))

RECURSIVE reviewTimesOf(_)
reviewTimesOf(metrics) ==
  IF metrics = <<>> THEN <<>>
  ELSE (IF Head(metrics).reviewTimeHours # null
        THEN <<Head(metrics).reviewTimeHours>> ELSE <<>>) \o reviewTimesOf(Tail(metrics))

\* calculateMetricsSummary returns null for an empty list: every property
\* read from it with ?. is undefined
NullSummary ==
  [isNull |-> TRUE, totalPRs |-> undefined,
   cycleTime |-> [avgHours |-> undefined, count |-> 0],
   reviewTime |-> [avgHours |-> undefined, count |-> 0],
   prSize |-> [avgChanges |-> undefined]]

Summary(all, cycleTimeHours, reviewTimeHours) ==
  [isNull |-> FALSE,
   totalPRs |-> Num(Len(all)),
   cycleTime |-> [avgHours |-> average(cycleTimeHours), count |-> Len(cycleTimeHours)],
   reviewTime |-> [avgHours |-> average(reviewTimeHours), count |-> Len(reviewTimeHours)],
   prSize |-> [avgChanges |-> average([i \in 1..Len(all) |-> all[i].totalChanges])]]

\* a summary that takes the cycle time of the reviewed records only
calculateMetricsSummary_dropsIncomplete(metrics) ==
  IF Len(metrics) = 0 THEN NullSummary
  ELSE Summary(metrics,
               cycleTimesOf(SelectSeq(metrics, LAMBDA m : m.reviewTimeHours # null)),
               reviewTimesOf(metrics))

\* of the summary, the medians, the percentiles and the contributors are
\* left out
calculateMetricsSummary(metrics) ==
  IF Len(metrics) = 0 THEN NullSummary
  ELSE Summary(metrics, cycleTimesOf(metrics), reviewTimesOf(metrics))

\* calculateImprovement returns null
NullDelta ==
  [isNull |-> TRUE, oldValue |-> undefined, newValue |-> undefined,
   percentChange |-> undefined, improvement |-> undefined, isImprovement |-> FALSE]

Delta(oldValue, newValue, percentChange, improvement) ==
  [isNull |-> FALSE, oldValue |-> oldValue, newValue |-> newValue,
   percentChange |-> percentChange, improvement |-> improvement,
   isImprovement |-> Positive(improvement)]

percentChangeOf(oldValue, newValue) ==
  Times(DividedBy(Plus(newValue, Negate(oldValue)), oldValue), 100)

calculateImprovement_lowerAlwaysBetter(oldValue, newValue, lowerIsBetter) ==
  IF Falsy(oldValue) \/ Falsy(newValue) THEN NullDelta
  ELSE LET percentChange == percentChangeOf(oldValue, newValue)
       IN Delta(oldValue, newValue, percentChange, Negate(percentChange))

calculateImprovement(oldValue, newValue, lowerIsBetter) ==
  IF Falsy(oldValue) \/ Falsy(newValue) THEN NullDelta
  ELSE LET percentChange == percentChangeOf(oldValue, newValue)
       IN Delta(oldValue, newValue, percentChange,
                IF lowerIsBetter THEN Negate(percentChange) ELSE percentChange)

\* Object.values(comparison), in the order of the properties
Compared == <<"cycleTime", "reviewTime", "prSize", "totalPRs">>

improvementsOf(comparison) ==
  LET present == SelectSeq(Compared, LAMBDA m : ~comparison[m].isNull)
  IN [i \in 1..Len(present) |-> comparison[present[i]].improvement]

calculateOverallImprovement_countsAbsent(comparison) ==
  DividedBy(Sum(improvementsOf(comparison)), Num(Len(Compared)))

calculateOverallImprovement(comparison) ==
  LET improvements == improvementsOf(comparison)
  IN IF Len(improvements) = 0 THEN Num(0) ELSE average(improvements)

Band(direction, impact) == [direction |-> direction, impact |-> impact]
directionOf(overallImprovement) ==
  IF Positive(overallImprovement) THEN "faster" ELSE "slower"

generateSummary_inclusive(comparison, overallImprovement) ==
  LET magnitude == MathAbs(overallImprovement)
  IN Band(directionOf(overallImprovement),
          IF LessThan(magnitude, 5) \/ magnitude = Num(5) THEN "minimal"
          ELSE IF LessThan(magnitude, 15) \/ magnitude = Num(15) THEN "moderate"
          ELSE "significant")

\* of the sentence, the direction and the impact are kept; the magnitude
\* printed with one decimal is left out
generateSummary(comparison, overallImprovement) ==
  LET magnitude == MathAbs(overallImprovement)
  IN Band(directionOf(overallImprovement),
          IF LessThan(magnitude, 5) THEN "minimal"
          ELSE IF LessThan(magnitude, 15) THEN "moderate"
          ELSE "significant")

comparePeriors(currentPeriod, previousPeriod) ==
  LET comparison ==
        [cycleTime |-> calculateImprovement(previousPeriod.cycleTime.avgHours,
                                            currentPeriod.cycleTime.avgHours, TRUE),
         reviewTime |-> calculateImprovement(previousPeriod.reviewTime.avgHours,
                                             currentPeriod.reviewTime.avgHours, TRUE),
         prSize |-> calculateImprovement(previousPeriod.prSize.avgChanges,
                                         currentPeriod.prSize.avgChanges, TRUE),
         totalPRs |-> calculateImprovement(previousPeriod.totalPRs,
                                           currentPeriod.totalPRs, FALSE)]
      overallImprovement == calculateOverallImprovement(comparison)
  IN [kind |-> "value",
      deltas |-> comparison,
      overallImprovement |-> overallImprovement,
      summary |-> generateSummary(comparison, overallImprovement)]

----------------------------------------------------------------------------
(* AIDeliveryAnalyzer.processPRs and GitHubClient.getPullRequestDetails,   *)
(* one caller (task 1), with the default budgets as above.  The pauses of  *)
(* 100 ms between the sub-requests and of 500 ms between batches of ten    *)
(* are steps of the clock that may or may not fall between two actions.    *)

Caller == 1

\* prs: pull requests of the list endpoint, every number once
Batches ==
  UNION {{b \in [1..n -> PRRefs] :
            \A i, j \in 1..n : b[i].number = b[j].number => i = j} :
         n \in 0..Cardinality(PRNumbers)}

\* of a stored detail, analyzePullRequest reads the number, the merge time
\* and the approving reviews; the other fields are those of a complete record
detailRecord(prDetails) ==
  [number |-> prDetails.num, created_at |-> SinceMs,
   merged_at |-> prDetails.items[1], user |-> "alice",
   additions |-> 6, deletions |-> 4, labels |-> List(<<>>)]

detailReviews(prDetails) ==
  List([i \in 1..(Len(prDetails.items) - 1) |->
          [state |-> "APPROVED", submitted_at |-> prDetails.items[i + 1]]])

detailsKey(pr) == prDetailsKey("org", "web-app", pr.number, pr.updated_at)

\* a catch block that gives up the rest of the batch
skipRecord_abandonsBatch(i, n) == n + 1

\* the catch block of processPRs: the loop goes on with the next record
skipRecord(i, n) == i + 1

\* processPRs is done with the record at index; it returns after the last one
AfterRecord(outcome, metrics, next) ==
  /\ outcomes' = Append(outcomes, outcome)
  /\ prMetrics' = metrics
  /\ index' = next
  /\ partial' = NoPartial
  /\ calls' = [calls EXCEPT ![Caller] = 0]
  /\ IF next > Len(batch)
     THEN /\ pc' = [pc EXCEPT ![Caller] = "idle"]
          /\ todo' = [todo EXCEPT ![Caller] = @ - 1]
          /\ processed' = [kind |-> "value", metrics |-> metrics]
     ELSE /\ pc' = [pc EXCEPT ![Caller] = "next"]
          /\ UNCHANGED <<todo, processed>>

\* getPullRequestDetails returned prDetails
Returned(prDetails) ==
  LET metric == analyzePullRequest(detailRecord(prDetails), detailReviews(prDetails))
  IN AfterRecord(prDetails,
                 IF metric.kind = "metric" THEN Append(prMetrics, metric) ELSE prMetrics,
                 index + 1)

ProcessPRs(prs) ==
  /\ pc[Caller] = "idle"
  /\ todo[Caller] > 0
  /\ batch' = prs
  /\ index' = 1
  /\ prMetrics' = <<>>
  /\ outcomes' = <<>>
  /\ IF prs = <<>>
     THEN /\ processed' = [kind |-> "value", metrics |-> <<>>]
          /\ todo' = [todo EXCEPT ![Caller] = @ - 1]
          /\ UNCHANGED pc
     ELSE /\ pc' = [pc EXCEPT ![Caller] = "next"]
          /\ UNCHANGED <<processed, todo>>
  /\ UNCHANGED <<metricVars, runVars, now, rateLimiter, requestsThisRun, issued, rateLimitErrors, store,
                 cacheKey, calls, wakeAt, stage, result, cacheObs, keyVars, pageVars,
                 partial, cachedDetails>>

\* getPullRequestDetails up to its return from the cache or to its first
\* sub-request
GetPullRequestDetails ==
  /\ pc[Caller] = "next"
  /\ LET g == CacheGet(store, detailsKey(batch[index]), now)
     IN /\ store' = g.store
        /\ IF Truthy(g.ret)
           THEN /\ rateLimiter' = recordRequest(rateLimiter, now, TRUE)
                /\ Returned(g.ret)
           ELSE /\ rateLimiter' = waitIfNeeded(rateLimiter, now).L
                /\ pc' = [pc EXCEPT ![Caller] = "detail"]
                /\ calls' = [calls EXCEPT ![Caller] = 1]
                /\ UNCHANGED <<outcomes, prMetrics, index, partial, todo, processed>>
  /\ UNCHANGED <<metricVars, runVars, now, requestsThisRun, issued, rateLimitErrors, cacheKey, wakeAt,
                 stage, result, cacheObs, keyVars, pageVars, batch, cachedDetails>>

\* a getPullRequestDetails that goes from the detail straight to the commits
subRequestAfter_skipsReviews(done) == "commits"

\* the sub-requests of getPullRequestDetails, one after the other
subRequestAfter(done) == IF done = "detail" THEN "reviews" ELSE "commits"

\* octokit.pulls.get resolves; the request for the reviews follows
DetailResolve ==
  /\ pc[Caller] = "detail"
  /\ \E mergedAt \in {0, MergedAtMs} :
       partial' = [prDetails |-> JSDetail(batch[index].number, mergedAt, <<>>),
                   reviews |-> <<>>]
  /\ rateLimiter' = waitIfNeeded(recordRequest(rateLimiter, now, FALSE), now).L
  /\ pc' = [pc EXCEPT ![Caller] = subRequestAfter("detail")]
  /\ calls' = [calls EXCEPT ![Caller] = @ + 1]
  /\ requestsThisRun' = requestsThisRun + 1
  /\ issued' = Append(issued, now)
  /\ UNCHANGED <<metricVars, runVars, now, rateLimitErrors, store, cacheKey, wakeAt, stage, result, todo,
                 cacheObs, keyVars, pageVars, batch, index, prMetrics, outcomes,
                 processed, cachedDetails>>

\* octokit.pulls.listReviews resolves; the request for the commits follows
ReviewsResolve ==
  /\ pc[Caller] = "reviews"
  /\ \E reviews \in ReviewLists :
       partial' = [partial EXCEPT !.reviews = reviews]
  /\ rateLimiter' = waitIfNeeded(recordRequest(rateLimiter, now, FALSE), now).L
  /\ pc' = [pc EXCEPT ![Caller] = subRequestAfter("reviews")]
  /\ calls' = [calls EXCEPT ![Caller] = @ + 1]
  /\ requestsThisRun' = requestsThisRun + 1
  /\ issued' = Append(issued, now)
  /\ UNCHANGED <<metricVars, runVars, now, rateLimitErrors, store, cacheKey, wakeAt, stage, result, todo,
                 cacheObs, keyVars, pageVars, batch, index, prMetrics, outcomes,
                 processed, cachedDetails>>

\* octokit.pulls.listCommits resolves: the result is stored and returned
CommitsResolve ==
  /\ pc[Caller] = "commits"
  /\ LET details == JSDetail(partial.prDetails.num, partial.prDetails.items[1],
                             partial.reviews)
     IN /\ store' = CacheSet(store, detailsKey(batch[index]), details, now)
        /\ cachedDetails' = [cachedDetails EXCEPT ![batch[index]] =
                               [set |-> TRUE, at |-> now, detail |-> details]]
        /\ Returned(details)
  /\ rateLimiter' = recordRequest(rateLimiter, now, FALSE)
  /\ requestsThisRun' = requestsThisRun + 1
  /\ issued' = Append(issued, now)
  /\ UNCHANGED <<metricVars, runVars, now, rateLimitErrors, cacheKey, wakeAt, stage, result, cacheObs,
                 keyVars, pageVars, batch>>

\* a sub-request fails: the error leaves getPullRequestDetails and is caught
\* by processPRs
SubRequestReject ==
  /\ pc[Caller] \in {"detail", "reviews", "commits"}
  /\ AfterRecord(JSNull, prMetrics, skipRecord(index, Len(batch)))
  /\ UNCHANGED <<metricVars, runVars, now, rateLimiter, requestsThisRun, issued, rateLimitErrors, store,
                 cacheKey, wakeAt, stage, result, cacheObs, keyVars, pageVars, batch,
                 cachedDetails>>

DetailTickSteps == {MinuteMs \div 2 + 1000}

TickDetails ==
  /\ \E t \in DetailTickSteps :
       /\ now + t <= MaxNow
       /\ now' = now + t
  /\ UNCHANGED <<metricVars, runVars, store, clientVars, pc, cacheKey, calls, cacheObs, keyVars, pageVars,
                 detailVars>>

InitDetails ==
  /\ ClientInit([requestsPerHour |-> DefaultRequestsPerHour,
                 burstLimit |-> DefaultBurstLimit,
                 maxBackoffMs |-> DefaultMaxBackoffMs],
                [t \in Tasks |-> IF t = Caller THEN MaxRuns ELSE 0])
  /\ keyArgs = <<NoArgs, NoArgs>>
  /\ keyOut = <<>>
  /\ source = <<>>
  /\ periods = NoPeriods
  /\ argv = NoOptions

NextDetails ==
  \/ \E prs \in Batches : ProcessPRs(prs)
  \/ GetPullRequestDetails
  \/ DetailResolve
  \/ ReviewsResolve
  \/ CommitsResolve
  \/ SubRequestReject
  \/ TickDetails

SpecDetails == InitDetails /\ [][NextDetails]_vars

----------------------------------------------------------------------------
(* analyzeRepository: the records of the two periods are analysed one by   *)
(* one, summarised, and the summaries are compared.  The records are those *)
(* processPRs holds after getPullRequestDetails.                           *)

T0 == SinceMs
MergeHours == {5, 15, 20}

\* a complete record merged h hours after it was opened
CompleteRecord(h) ==
  [number |-> h, created_at |-> T0, merged_at |-> T0 + h * HourMs, user |-> "alice",
   additions |-> IF h = 20 THEN 18 ELSE 6,
   deletions |-> IF h = 20 THEN 12 ELSE 4,
   labels |-> List(<<>>)]

\* no review, or a comment followed by an approval two hours after opening
ReviewOptions ==
  {List(<<>>),
   List(<<[state |-> "COMMENTED", submitted_at |-> T0 + HourMs],
          [state |-> "APPROVED", submitted_at |-> T0 + 2 * HourMs]>>)}

CompleteInputs ==
  {[pr |-> CompleteRecord(h), reviews |-> r] : h \in MergeHours, r \in ReviewOptions}

\* a record that was closed without merge
UnmergedInput ==
  [pr |-> [CompleteRecord(5) EXCEPT !.merged_at = 0], reviews |-> List(<<>>)]

\* merged records in which one field is missing
MalformedInputs ==
  {[pr |-> [CompleteRecord(5) EXCEPT !.user = NoUser], reviews |-> List(<<>>)],
   [pr |-> [CompleteRecord(5) EXCEPT !.labels = undefinedList], reviews |-> List(<<>>)],
   [pr |-> [CompleteRecord(5) EXCEPT !.additions = Missing], reviews |-> List(<<>>)],
   [pr |-> CompleteRecord(5), reviews |-> undefinedList]}

CurrentInputs == CompleteInputs \cup {UnmergedInput} \cup MalformedInputs
PreviousInputs == CompleteInputs \cup {UnmergedInput}

ListsOf(S, max) == UNION {[1..n -> S] : n \in 0..max}

\* the metric of every record, in the order of the list
metricsOf(inputs) ==
  [i \in 1..Len(inputs) |-> analyzePullRequest(inputs[i].pr, inputs[i].reviews)]

\* processPRs keeps the metrics that are not null; a record on which
\* analyzePullRequest throws is logged and skipped; the list is summarised
AnalysePeriod(p) ==
  /\ analysed[p].kind = "none"
  /\ LET all == metricsOf(periods[p])
         kept == SelectSeq(all, LAMBDA m : m.kind = "metric")
     IN analysed' = [analysed EXCEPT ![p] =
                       [kind |-> "value",
                        metrics |-> kept,
                        raised |-> Len(SelectSeq(all, LAMBDA m : m.kind = "TypeError")),
                        summary |-> calculateMetricsSummary(kept)]]
  /\ UNCHANGED <<runVars, periods, report, now, store, clientVars, pc, cacheKey, calls,
                 cacheObs, keyVars, pageVars, detailVars>>

ComparePeriods ==
  /\ \A p \in Periods : analysed[p].kind = "value"
  /\ report.kind = "none"
  /\ report' = comparePeriors(analysed["current"].summary,
                                  analysed["previous"].summary)
  /\ UNCHANGED <<runVars, periods, analysed, now, store, clientVars, pc, cacheKey, calls,
                 cacheObs, keyVars, pageVars, detailVars>>

InitMetrics ==
  /\ ClientInit([requestsPerHour |-> DefaultRequestsPerHour,
                 burstLimit |-> DefaultBurstLimit,
                 maxBackoffMs |-> DefaultMaxBackoffMs], [t \in Tasks |-> 0])
  /\ keyArgs = <<NoArgs, NoArgs>>
  /\ keyOut = <<>>
  /\ source = <<>>
  /\ \E current \in ListsOf(CurrentInputs, MaxCurrent),
        previous \in ListsOf(PreviousInputs, MaxPrevious) :
       periods = [p \in Periods |-> IF p = "current" THEN current ELSE previous]
  /\ argv = NoOptions

NextMetrics ==
  \/ \E p \in Periods : AnalysePeriod(p)
  \/ ComparePeriods

SpecMetrics == InitMetrics /\ [][NextMetrics]_vars

----------------------------------------------------------------------------
(* main (index.js): the periods of the analysis are read from the command  *)
(* line.  The text of an option is the sequence of its characters; an      *)
(* option that is not given is the empty sequence.                         *)

\* README, Data Analysis Limits: the longest period, in days
MaxPeriodDays == 90

Digits == <<"0", "1", "2", "3", "4", "5", "6", "7", "8", "9">>
IsDigit(c) == \E i \in 1..10 : Digits[i] = c
DigitOf(c) == (CHOOSE i \in 1..10 : Digits[i] = c) - 1

\* the digits a text starts with
LeadingDigits(s) ==
  LET stops == {i \in 1..Len(s) : ~IsDigit(s[i])}
  IN IF stops = {} THEN s
     ELSE SubSeq(s, 1, (CHOOSE i \in stops : \A j \in stops : i <= j) - 1)

RECURSIVE Decimal(_)
Decimal(ds) ==
  IF ds = <<>> THEN 0
  ELSE 10 * Decimal(SubSeq(ds, 1, Len(ds) - 1)) + DigitOf(ds[Len(ds)])

\* parseInt: an optional sign and the digits that follow it; NaN without digit
parseInt(s) ==
  LET signed == s # <<>> /\ s[1] \in {"-", "+"}
      ds == LeadingDigits(IF signed THEN Tail(s) ELSE s)
  IN IF ds = <<>> THEN NaN
     ELSE Num(IF signed /\ s[1] = "-" THEN 0 - Decimal(ds) ELSE Decimal(ds))

\* presets[period]; 0 stands for undefined
getDateRangePresets(period) ==
  CASE period = "weekly" -> 7
    [] period = "monthly" -> 30
    [] period = "quarterly" -> 90
    [] period = "6months" -> 180
    [] period = "yearly" -> 365
    [] OTHER -> 0

PeriodOptions == {"weekly", "monthly", "quarterly", "6months", "yearly", "daily"}
DaysOptions ==
  {<<>>, <<"0">>, <<"3", "0">>, <<"9", "0">>, <<"9", "1">>, <<"a", "b">>,
   <<"-", "5">>, <<"7", "d">>}
CompareDaysOptions == {<<>>, <<"0">>, <<"9", "0">>, <<"1", "8", "0">>, <<"x">>}
GapDaysOptions == {<<"0">>, <<"7">>, <<"-", "1">>}

\* process.exit(1)
Exit == [kind |-> "exit", currentPeriodDays |-> 0, previousPeriodDays |-> 0, gapDays |-> 0]

\* isNaN(days) || days <= 0
NotPositive(days) == ~IsNumber(days) \/ days.n <= 0

\* new AIDeliveryAnalyzer(analyzerOptions) followed by generateReport()
AIDeliveryAnalyzer(currentPeriodDays, previousPeriodDays, gapDays) ==
  LET current == IF currentPeriodDays # 0 THEN currentPeriodDays ELSE 90
  IN [kind |-> "started",
      currentPeriodDays |-> current,
      previousPeriodDays |-> IF previousPeriodDays # 0 THEN previousPeriodDays
                             ELSE current,
      gapDays |-> gapDays]

\* main, from the parsing of the current period on
Main ==
  /\ run.kind = "none"
  /\ LET days == parseInt(argv.days)
         preset == getDateRangePresets(argv.period)
         compareDays == parseInt(argv.compareDays)
         gap == parseInt(argv.gapDays)
         currentPeriodDays == IF argv.days # <<>> THEN days.n ELSE preset
         previousPeriodDays ==
           IF argv.compareDays # <<>> THEN compareDays.n ELSE currentPeriodDays
     IN run' =
          IF argv.days # <<>> /\ NotPositive(days) THEN Exit
          ELSE IF argv.days = <<>> /\ preset = 0 THEN Exit
          ELSE IF argv.compareDays # <<>> /\ NotPositive(compareDays) THEN Exit
          ELSE IF argv.gapDays # <<>> /\ (~IsNumber(gap) \/ gap.n < 0) THEN Exit
          ELSE AIDeliveryAnalyzer(currentPeriodDays, previousPeriodDays,
                                  IF argv.gapDays # <<>> THEN gap.n ELSE 0)
  /\ UNCHANGED <<argv, metricVars, now, store, clientVars, pc, cacheKey, calls,
                 cacheObs, keyVars, pageVars, detailVars>>

InitRun ==
  /\ ClientInit([requestsPerHour |-> DefaultRequestsPerHour,
                 burstLimit |-> DefaultBurstLimit,
                 maxBackoffMs |-> DefaultMaxBackoffMs], [t \in Tasks |-> 0])
  /\ keyArgs = <<NoArgs, NoArgs>>
  /\ keyOut = <<>>
  /\ source = <<>>
  /\ periods = NoPeriods
  /\ argv \in [period : PeriodOptions, days : DaysOptions,
               compareDays : CompareDaysOptions, gapDays : GapDaysOptions]

NextRun == Main

SpecRun == InitRun /\ [][NextRun]_vars

----------------------------------------------------------------------------
(* AIDeliveryAnalyzer.analyzeRepository: the two periods and their pull    *)
(* requests.  The fetch of the current period is task 1, that of the       *)
(* previous period task 2; Promise.all starts both at the instant          *)
(* analyzeRepository reads the clock, StartDate, and no time passes        *)
(* before both are started.                                                *)

StartDate == UntilMs

subDays(date, amount) == date - amount * DayMs

\* now, currentPeriodStart, previousPeriodEnd and previousPeriodStart, as the
\* since and until of the fetch of the period
periodWindow(analyzer, period, date) ==
  LET currentPeriodStart == subDays(date, analyzer.currentPeriodDays)
      previousPeriodEnd ==
        subDays(date, analyzer.currentPeriodDays + analyzer.gapDays)
      previousPeriodStart == subDays(previousPeriodEnd, analyzer.previousPeriodDays)
  IN IF period = "current"
     THEN [since |-> currentPeriodStart, until |-> date]
     ELSE [since |-> previousPeriodStart, until |-> previousPeriodEnd]

PeriodOf(t) == IF t = 1 THEN "current" ELSE "previous"

ShortPeriods ==
  [period : {"quarterly"}, days : {<<"1">>, <<"2">>},
   compareDays : {<<>>, <<"1">>}, gapDays : {<<"0">>, <<"1">>}]

PeriodSources == UNION {[1..n -> CreatedAts] : n \in 0..PerPage}

\* analyzeRepository calls getPullRequests for the period of task t
AnalyzeRepository(t) ==
  /\ run.kind = "started"
  /\ GetPullRequests(t, periodWindow(run, PeriodOf(t), StartDate + now))

\* the clock advances once both fetches are under way
TickPeriods ==
  /\ \A t \in 1..2 : todo[t] = 0 \/ pc[t] = "paging"
  /\ TickPages

InitPeriods ==
  /\ ClientInit([requestsPerHour |-> DefaultRequestsPerHour,
                 burstLimit |-> DefaultBurstLimit,
                 maxBackoffMs |-> DefaultMaxBackoffMs],
                [t \in Tasks |-> IF t <= 2 THEN 1 ELSE 0])
  /\ keyArgs = <<NoArgs, NoArgs>>
  /\ keyOut = <<>>
  /\ source \in PeriodSources
  /\ periods = NoPeriods
  /\ argv \in ShortPeriods

NextPeriods ==
  \/ Main
  \/ \E t \in Tasks : AnalyzeRepository(t)
  \/ \E t \in Tasks : PageResolve(t)
  \/ \E t \in Tasks : PageReject(t)
  \/ TickPeriods

SpecPeriods == InitPeriods /\ [][NextPeriods]_vars

----------------------------------------------------------------------------
(* Properties of the fetch client *)

\* the only caller is task 1: the requests form a sequence
Sequential == \A t \in Tasks \ {1} : todo[t] = 0 /\ pc[t] = "idle"

\* members of the history that fall in the window of the given width ending
\* at the i-th member
InWindow(i, width) ==
  {j \in 1..Len(issued) : issued[j] > issued[i] - width /\ issued[j] <= issued[i]}

\* C1: requestFn is invoked at most twice per makeRequest call: once, and
\* once more after a rate-limit error; a second rate-limit error propagates.
C1_AtMostTwoInvocations ==
  /\ \A t \in Tasks : calls[t] <= 2
  /\ result.calls <= 2

\* C2: at most one remote operation is in flight: no task is between its
\* budget check and the recording of its outcome while another one is.
C2_OneInFlight ==
  Cardinality({t \in Tasks : pc[t] = "inflight"}) <= 1

\* C3: in a sequence of request calls, the requests recorded within any one
\* minute never number more than burstLimit.
C3_BurstBudget ==
  Sequential =>
    \A i \in 1..Len(issued) :
      Cardinality(InWindow(i, MinuteMs)) <= rateLimiter.burstLimit

\* C4: in a sequence of request calls, the requests recorded within any one
\* hour never number more than requestsPerHour.
C4_HourlyBudget ==
  Sequential =>
    \A i \in 1..Len(issued) :
      Cardinality(InWindow(i, HourMs)) <= rateLimiter.requestsPerHour

\* task t enters makeRequest with cache key k in this step
CallStep(t, k) ==
  /\ pc[t] = "idle"
  /\ todo[t] > 0
  /\ \/ pc'[t] # "idle" /\ cacheKey'[t] = k
     \/ /\ pc'[t] = "idle"
        /\ todo'[t] = todo[t] - 1
        /\ result'.task = t
        /\ result'.key = k

Unexpired(k) == k \in DOMAIN store /\ now - store[k].timestamp <= maxAge

\* C10: a makeRequest whose cache key has an unexpired cached value returns
\* that value without calling requestFn; the windows, the backoff state and
\* totalRequests stay as they were and only cachedRequests grows, by one.
C10_CacheHitFrame ==
  [][\A t \in Tasks, k \in ClientKeys :
       (CallStep(t, k) /\ Unexpired(k)) =>
         /\ pc'[t] = "idle"
         /\ result'.kind = "value"
         /\ result'.value = JSONParse(store[k].data)
         /\ result'.calls = 0
         /\ rateLimiter' = [rateLimiter EXCEPT !.stats.cachedRequests = @ + 1]
         /\ requestsThisRun' = requestsThisRun
         /\ issued' = issued
         /\ store' = store]_vars

C10_Witness ==
  /\ result.kind = "value"
  /\ result.key \in ClientKeys
  /\ result.calls = 0
  /\ rateLimiter.stats.cachedRequests = 1
  /\ rateLimiter.stats.totalRequests = 1
  /\ Len(rateLimiter.burstRequests) = 1

\* requestFn of task t rejects in this step with an error on which the
\* catch block neither records a hard limit nor counts a rate-limit error
OtherFailureStep(t) ==
  /\ pc[t] = "inflight"
  /\ <<pc[t], calls[t]>> # <<pc'[t], calls'[t]>>
  /\ issued' = issued
  /\ rateLimitErrors' = rateLimitErrors

\* C11: when requestFn fails with an error that is not a rate-limit error,
\* makeRequest throws that error to its caller: requestFn is not invoked
\* again (once in all when no rate-limit error came before), and neither the
\* cache nor the limiter changes.
C11_OtherErrorPropagates ==
  [][\A t \in Tasks :
       OtherFailureStep(t) =>
         /\ pc'[t] = "idle"
         /\ result'.task = t
         /\ result'.kind \in {e.name : e \in {x \in Errors : ~isRateLimitError(x)}}
         /\ result'.calls = calls[t]
         /\ (rateLimitErrors = 0 => result'.calls = 1)
         /\ store' = store
         /\ rateLimiter' = rateLimiter
         /\ requestsThisRun' = requestsThisRun]_vars

C11_Witness ==
  /\ result.kind = "Forbidden"
  /\ result.key \in ClientKeys
  /\ result.calls = 1
  /\ result.key \notin DOMAIN store

\* a hard limit is recorded and its reset time lies ahead
HardLimitActive ==
  /\ rateLimiter.isRateLimited
  /\ rateLimiter.rateLimitResetTime # NoReset
  /\ rateLimiter.rateLimitResetTime > now

\* the burst window holds exactly burstLimit requests of the last minute
BurstWindowFull ==
  Len(cleanOldRequests(rateLimiter, now).burstRequests) = rateLimiter.burstLimit

StartsSleep(t) ==
  pc'[t] = "sleeping" /\ (pc[t] # "sleeping" \/ stage'[t] # stage[t])

EndsRequestSleep(t) ==
  pc[t] = "sleeping" /\ stage[t] = "request" /\ pc'[t] # "sleeping"

\* currentBackoffMs went from a to b by one escalation
Escalated(a, b) ==
  IF a >= rateLimiter.maxBackoffMs * Scale
  THEN b = rateLimiter.maxBackoffMs * Scale
  ELSE a < b /\ b <= rateLimiter.maxBackoffMs * Scale

\* C13: from one waited request to the next, currentBackoffMs grows until it
\* is the ceiling and then stays there: the step in which a request decides
\* to wait does not lower it, and the end of the wait raises it, or leaves
\* it at the ceiling.
C13_BackoffEscalation ==
  [][\A t \in Tasks :
       /\ StartsSleep(t) =>
            rateLimiter'.currentBackoffMs >= rateLimiter.currentBackoffMs
       /\ EndsRequestSleep(t) =>
            Escalated(rateLimiter.currentBackoffMs,
                      rateLimiter'.currentBackoffMs)]_vars

\* task t calls requestFn in this step without having slept for it
CleanRequestStep(t) ==
  /\ pc'[t] = "inflight"
  /\ calls'[t] = calls[t] + 1
  /\ ~(pc[t] = "sleeping" /\ stage[t] = "request")

\* C14: whenever a request proceeds without waiting, currentBackoffMs is
\* the floor of 1000 ms afterwards, whatever it was before.
C14_BackoffReset ==
  [][\A t \in Tasks :
       CleanRequestStep(t) =>
         rateLimiter'.currentBackoffMs = FloorBackoffMs * Scale]_vars

\* a request is in flight with the backoff at its floor, after an earlier
\* request was made at the end of a sleep, which had raised the backoff
C14_Witness ==
  /\ rateLimiter.currentBackoffMs = FloorBackoffMs * Scale
  /\ \E t \in Tasks : pc[t] = "inflight" /\ calls[t] = 1
  /\ \E i \in 1..Len(issued) : issued[i] % MinuteMs # 0

\* C15: currentBackoffMs never exceeds the configured maxBackoffMs.
C15_BackoffCeiling ==
  rateLimiter.currentBackoffMs <= rateLimiter.maxBackoffMs * Scale

\* the times at which getWaitTime may be called: now, and up to an hour
\* and a minute later
CheckTimes == {now, now + MinuteMs, now + HourMs - MinuteMs, now + HourMs}

\* window after cleanOldRequests at t holds the timestamps of before that are
\* newer than t - width, all of them and in their order
PrunedTo(before, after, t, width) ==
  /\ \A i \in 1..Len(after) : after[i] > t - width
  /\ \E f \in [1..Len(after) -> 1..Len(before)] :
       /\ \A i \in 1..Len(after) : after[i] = before[f[i]]
       /\ \A i, j \in 1..Len(after) : i < j => f[i] < f[j]
       /\ \A k \in 1..Len(before) :
            before[k] > t - width => \E i \in 1..Len(after) : f[i] = k

C32_LowQuotaLimits ==
  \A h \in Headers :
    LET reset == ResetHeader(h.ahead)
        L == handleHeaders(recordRequest(rateLimiter, now, FALSE), h.remaining, reset)
    IN (h.remaining <= CriticalRemaining /\ reset # 0) =>
         /\ L.isRateLimited
         /\ L.rateLimitResetTime = reset * 1000
         /\ \A t \in {now, now + 1, reset * 1000 - 1} :
              (t >= now /\ t < reset * 1000) =>
                /\ waitIfNeeded(L, t).wait = (reset * 1000 - t) * Scale
                /\ t + TimerMs(waitIfNeeded(L, t).wait) = reset * 1000

\* the last response was a success that set the hard limit, and the request
\* after it sleeps until the reset time
C32_Witness ==
  /\ HardLimitActive
  /\ rateLimitErrors = 0
  /\ result.kind = "value"
  /\ issued # <<>>
  /\ rateLimiter.rateLimitResetTime = ((issued[Len(issued)] \div 1000) + 1) * 1000
  /\ \E t \in Tasks :
       /\ pc[t] = "sleeping"
       /\ stage[t] = "request"
       /\ calls[t] = 0
       /\ wakeAt[t] = rateLimiter.rateLimitResetTime

\* requestFn of task t resolves in this step and makeRequest returns
SuccessStep(t) ==
  /\ pc[t] = "inflight"
  /\ pc'[t] = "idle"
  /\ result'.kind = "value"
  /\ Len(issued') = Len(issued) + 1

\* C33: after every successful request made with a cache key the cache
\* holds the returned payload under that key, whatever the payload is.
C33_PayloadCached ==
  [][\A t \in Tasks :
       (SuccessStep(t) /\ cacheKey[t] # NoKey) =>
         /\ cacheKey[t] \in DOMAIN store'
         /\ store'[cacheKey[t]].timestamp = now
         /\ JSONParse(store'[cacheKey[t]].data) = result'.value]_vars

\* task t calls requestFn in this step
InvokeStep(t) == pc'[t] = "inflight" /\ calls'[t] = calls[t] + 1

\* C28: while a hard limit is active (isRateLimited set and now before the
\* reset time) no request calls requestFn: not a new request, not the retry
\* after a rate-limit error, not a request that was already sleeping when
\* the hard limit was set.
C28_HardLimitBlocks ==
  [][\A t \in Tasks : HardLimitActive => ~InvokeStep(t)]_vars

\* C29: with isRateLimited set and now before the reset time, getWaitTime
\* returns exactly the time until the reset, whatever the burst window, the
\* hourly window and currentBackoffMs hold.
C29_HardWaitExact ==
  HardLimitActive =>
    getWaitTime(rateLimiter, now).wait = (rateLimiter.rateLimitResetTime - now) * Scale

\* a request sleeps until the reset while the burst window is full and the
\* backoff is above its floor
C29_Witness ==
  /\ HardLimitActive
  /\ BurstWindowFull
  /\ rateLimiter.currentBackoffMs > FloorBackoffMs * Scale
  /\ \E t \in Tasks :
       /\ pc[t] = "sleeping"
       /\ stage[t] = "request"
       /\ wakeAt[t] = rateLimiter.rateLimitResetTime

\* handleRateLimitResponse ran in this step: a hard limit is set, or moved
HardLimitStep ==
  /\ rateLimiter'.isRateLimited
  /\ rateLimiter'.rateLimitResetTime # NoReset
  /\ ~rateLimiter.isRateLimited
       \/ rateLimiter'.rateLimitResetTime # rateLimiter.rateLimitResetTime

\* the window as the rest of makeRequest leaves it: recordRequest adds the
\* request that was answered, the waitIfNeeded of the retry prunes
SameWindow(before, after, length) ==
  after \in {before, Append(before, now), NewerThan(before, now - length)}

\* C30: handleRateLimitResponse(reset) sets isRateLimited and sets
\* rateLimitResetTime to reset * 1000; it leaves currentBackoffMs, the
\* hourly window and the burst window as they are.
C30_HardLimitFrame ==
  [][HardLimitStep =>
       /\ rateLimiter'.rateLimitResetTime % 1000 = 0
       /\ rateLimiter'.rateLimitResetTime \div 1000
            \in {ResetHeader(ahead) : ahead \in ResetAheadSecs \ {0}}
       /\ rateLimiter'.currentBackoffMs = rateLimiter.currentBackoffMs
       /\ SameWindow(rateLimiter.requests, rateLimiter'.requests, HourMs)
       /\ SameWindow(rateLimiter.burstRequests, rateLimiter'.burstRequests,
                     MinuteMs)]_vars

\* a hard limit is set while the windows hold requests and the backoff is
\* above its floor
C30_Witness ==
  /\ HardLimitActive
  /\ rateLimiter.stats.rateLimitHits > 0
  /\ rateLimiter.currentBackoffMs > FloorBackoffMs * Scale
  /\ rateLimiter.requests # <<>>
  /\ rateLimiter.burstRequests # <<>>

\* a hard limit is recorded in L and its reset time is t or earlier
HardLimitExpired(L, t) ==
  /\ L.isRateLimited
  /\ L.rateLimitResetTime # NoReset
  /\ t >= L.rateLimitResetTime

\* no hard limit is recorded in L and the backoff is at its floor
NoHardLimit(L) ==
  /\ ~L.isRateLimited
  /\ L.rateLimitResetTime = NoReset
  /\ L.currentBackoffMs = FloorBackoffMs * Scale

\* the limiter L without its hard limit
WithoutHardLimit(L) ==
  [L EXCEPT !.isRateLimited = FALSE,
            !.rateLimitResetTime = NoReset,
            !.currentBackoffMs = FloorBackoffMs * Scale]

\* a request of task t enters waitIfNeeded in this step
WaitStep(t) == pc[t] = "idle" /\ pc'[t] \in {"sleeping", "inflight"}

\* C35: once the reset time of a hard limit has passed, the next getWaitTime
\* clears it: isRateLimited is false, rateLimitResetTime is null and
\* currentBackoffMs is at the floor, and the wait returned is the one the
\* windows alone give.  So a request that arrives at or after the reset time
\* leaves no hard limit behind and waits, if at all, for its window.
C35_ExpiredLimitCleared ==
  [][/\ \A t \in CheckTimes \cup {now} :
          HardLimitExpired(rateLimiter, t) =>
            /\ NoHardLimit(getWaitTime(rateLimiter, t).L)
            /\ getWaitTime(rateLimiter, t).wait
                 = getWaitTime(WithoutHardLimit(rateLimiter), t).wait
     /\ \A t \in Tasks :
          (WaitStep(t) /\ HardLimitExpired(rateLimiter, now)) =>
            /\ NoHardLimit(rateLimiter')
            /\ pc'[t] = "sleeping" =>
                 wakeAt'[t] - now
                   = TimerMs(getWaitTime(WithoutHardLimit(rateLimiter), now).wait)]_vars

\* a hard limit was set, its reset time passed, and the request that came
\* next cleared it and called requestFn
C35_Witness ==
  /\ rateLimiter.stats.rateLimitHits > 0
  /\ NoHardLimit(rateLimiter)
  /\ now > 0
  /\ \E t \in Tasks : pc[t] = "inflight"

\* requestFn of task t rejects in this step
FailStep(t) ==
  /\ pc[t] = "inflight"
  /\ \/ rateLimitErrors' # rateLimitErrors
     \/ pc'[t] = "idle" /\ result'.task = t /\ result'.kind = "thrown"

\* the window after a step that records no request: as it was, or pruned
NoGain(before, after, length) ==
  after \in {before, NewerThan(before, now - length)}

\* w holds the most recent timestamps of s
IsSuffix(w, s) ==
  /\ Len(w) <= Len(s)
  /\ w = SubSeq(s, Len(s) - Len(w) + 1, Len(s))

\* C36: a failed requestFn consumes no tracked budget.  In the step in which
\* requestFn rejects, with a rate-limit error or any other, neither window
\* gains a timestamp and stats.totalRequests and requestsThisRun stay as they
\* are; the windows hold timestamps of answered, non-cached requests only,
\* and requestsThisRun always equals stats.totalRequests.
C36_FailureFrame ==
  [][/\ requestsThisRun' = rateLimiter'.stats.totalRequests
     /\ requestsThisRun' = Len(issued')
     /\ IsSuffix(rateLimiter'.requests, issued')
     /\ IsSuffix(rateLimiter'.burstRequests, issued')
     /\ \A t \in Tasks :
          FailStep(t) =>
            /\ NoGain(rateLimiter.requests, rateLimiter'.requests, HourMs)
            /\ NoGain(rateLimiter.burstRequests, rateLimiter'.burstRequests,
                      MinuteMs)
            /\ rateLimiter'.stats.totalRequests = rateLimiter.stats.totalRequests
            /\ requestsThisRun' = requestsThisRun]_vars

\* a request was answered and recorded, and the next one failed with a
\* rate-limit error and waits for its retry: the counters are still 1
C36_Witness ==
  /\ rateLimitErrors > 0
  /\ requestsThisRun = 1
  /\ rateLimiter.stats.totalRequests = 1
  /\ Len(rateLimiter.requests) = 1
  /\ \E t \in Tasks : pc[t] = "sleeping" /\ stage[t] = "retry" /\ calls[t] = 1

----------------------------------------------------------------------------
(* Properties of the paginated window fetch *)

\* the time window [since, until)
InHalfOpenWindow(pr, w) == pr.created_at >= w.since /\ pr.created_at < w.until

\* the source has full pages 1 and 2 and an empty or short page 3
ThreePageSource ==
  Len(source) >= 2 * PerPage /\ Len(source) < 3 * PerPage

AllRecords == [i \in 1..Len(source) |-> PullRequest(i, source[i])]

\* C16: a window fetch that reads a 3-page source returns exactly the
\* records of the source that lie in the window, on whichever page they are,
\* and makes exactly 3 page requests.
C16_ThreePages ==
  (fetched.kind = "value" /\ fetched.requests > 0 /\ ThreePageSource) =>
    /\ fetched.requests = 3
    /\ fetched.list =
         JSObjs(SelectSeq(AllRecords,
                          LAMBDA pr : InHalfOpenWindow(pr, fetched.window)))

\* a page request of task t resolves in this step
PageStep(t) == pc[t] = "paging" /\ issued' # issued

\* C17: of every page read, the fetch keeps a record exactly when
\* since <= created_at < until.
C17_HalfOpenFilter ==
  [][\A t \in Tasks :
       PageStep(t) =>
         LET kept == SelectSeq(PageOf(source, page[t]),
                               LAMBDA pr : InHalfOpenWindow(pr, window[t]))
         IN IF pc'[t] = "paging"
            THEN pulls'[t] = pulls[t] \o kept
            ELSE fetched'.list = JSObjs(pulls[t] \o kept)]_vars

\* C34: the window fetch starts at page 1 and requests the next page as
\* long as the page read was full and had a record of the window; it stops
\* at the first page that is short or has no record of the window, and
\* returns the records of the window of all pages read, in page order.
C34_PageLoop ==
  [][\A t \in Tasks :
       /\ (pc[t] = "idle" /\ pc'[t] = "paging") => page'[t] = 1
       /\ PageStep(t) =>
            LET data == PageOf(source, page[t])
                kept == SelectSeq(data, LAMBDA pr : InHalfOpenWindow(pr, window[t]))
            IN IF Len(data) = PerPage /\ Len(kept) > 0
               THEN /\ pc'[t] = "paging"
                    /\ page'[t] = page[t] + 1
                    /\ pulls'[t] = pulls[t] \o kept
               ELSE /\ pc'[t] = "idle"
                    /\ fetched'.kind = "value"
                    /\ fetched'.requests = page[t]
                    /\ fetched'.list = JSObjs(pulls[t] \o kept)]_vars

\* task t calls getPullRequests for window w in this step
FetchStep(t, w) ==
  /\ pc[t] = "idle"
  /\ todo[t] > 0
  /\ \/ pc'[t] = "paging" /\ window'[t] = w
     \/ /\ pc'[t] = "idle"
        /\ todo'[t] = todo[t] - 1
        /\ fetched'.task = t
        /\ fetched'.window = w

\* C18: a getPullRequests for the window of the fetch that returned last,
\* made while the list that fetch returned is at most maxAge old in the
\* cache, returns the same list without any page request; so too when the
\* list is empty.
C18_ListCachedWhole ==
  [][\A t \in Tasks, w \in Windows :
       (/\ FetchStep(t, w)
        /\ fetched.kind = "value"
        /\ fetched.window = w
        /\ now - fetched.cachedAt <= maxAge) =>
         /\ pc'[t] = "idle"
         /\ fetched'.kind = "value"
         /\ fetched'.list = fetched.list
         /\ fetched'.requests = 0
         /\ issued' = issued
         /\ requestsThisRun' = requestsThisRun]_vars

\* the second fetch returned the empty list from the cache, some time after
\* page requests had found no record of a non-empty source in the window
C18_Witness ==
  /\ fetched.kind = "value"
  /\ fetched.requests = 0
  /\ fetched.list = JSArr(<<>>)
  /\ source # <<>>
  /\ Len(issued) > 0
  /\ now > fetched.cachedAt
  /\ now - fetched.cachedAt <= maxAge

----------------------------------------------------------------------------
(* Properties of the batch of pull request details *)

\* the metrics of the details that were returned, in the order of the batch
RECURSIVE MetricsOf(_)
MetricsOf(outs) ==
  IF outs = <<>> THEN <<>>
  ELSE LET rest == MetricsOf(Tail(outs))
           metric == analyzePullRequest(detailRecord(Head(outs)), detailReviews(Head(outs)))
       IN IF Head(outs) = JSNull \/ Head(outs).items[1] = 0
          THEN rest ELSE <<metric>> \o rest

\* processPRs has returned
BatchDone == pc[Caller] = "idle" /\ index > Len(batch)

\* C19: processPRs does not fail when getPullRequestDetails fails for a
\* record: it goes through every record of the batch, skips those whose
\* details could not be fetched and returns the metrics of the merged ones
\* among the others, in the order of the batch.
C19_BatchSurvives ==
  /\ processed.kind \in {"none", "value"}
  /\ BatchDone =>
       /\ Len(outcomes) = Len(batch)
       /\ \A i \in 1..Len(batch) :
            outcomes[i] # JSNull => outcomes[i].num = batch[i].number
       /\ processed.kind = "value"
       /\ processed.metrics = MetricsOf(outcomes)

\* the details of the first record could not be fetched, the second record
\* is merged and its metric is the one returned
C19_Witness ==
  /\ BatchDone
  /\ Len(batch) = 2
  /\ outcomes[1] = JSNull
  /\ outcomes[2] # JSNull
  /\ Len(processed.metrics) = 1
  /\ processed.metrics[1].number = batch[2].number

\* getPullRequestDetails is called for the record at index in this step
DetailCallStep ==
  pc[Caller] = "next" /\ (pc'[Caller] # "next" \/ index' # index)

\* C20: getPullRequestDetails(number, updated_at) returns from the cache only
\* a detail that was stored for the same number and updated_at, and fetches
\* afresh otherwise; while the detail stored for its number and updated_at
\* is at most maxAge old, it returns that detail without any sub-request.
C20_DetailPerVersion ==
  [][DetailCallStep =>
       LET cached == cachedDetails[batch[index]]
       IN /\ pc'[Caller] # "detail" =>
               /\ cached.set
               /\ outcomes' = Append(outcomes, cached.detail)
          /\ (cached.set /\ now - cached.at <= maxAge) =>
               /\ pc'[Caller] # "detail"
               /\ outcomes' = Append(outcomes, cached.detail)
               /\ issued' = issued
               /\ requestsThisRun' = requestsThisRun]_vars

\* a pull request has a detail stored under each updated_at, the two are
\* different, and a later call was answered from the cache
C20_Witness ==
  \E n \in PRNumbers :
    LET first == cachedDetails[[number |-> n, updated_at |-> "2024-05-01"]]
        second == cachedDetails[[number |-> n, updated_at |-> "2024-05-02"]]
    IN /\ first.set
       /\ second.set
       /\ first.detail # second.detail
       /\ first.at < second.at
       /\ rateLimiter.stats.cachedRequests > 0

\* an entry is written under the detail key of pr in this step
DetailWritten(pr) ==
  /\ detailsKey(pr) \in DOMAIN store'
  /\ \/ detailsKey(pr) \notin DOMAIN store
     \/ store'[detailsKey(pr)] # store[detailsKey(pr)]

\* the caller starts the sub-request named in this step
SubRequestStep(name) == pc'[Caller] = name /\ pc[Caller] # name

\* a sub-request of getPullRequestDetails fails in this step
DetailFailStep ==
  /\ pc[Caller] \in {"detail", "reviews", "commits"}
  /\ outcomes' = Append(outcomes, JSNull)

\* C37: getPullRequestDetails writes the detail to the cache only after its
\* three sub-requests (detail, reviews, commits) were answered, made in that
\* order one after the other; when one of them fails the failure leaves
\* getPullRequestDetails, the sub-requests that remain are not made and no
\* entry is written under the detail key.
C37_DetailAllOrNothing ==
  [][/\ \A pr \in PRRefs :
          DetailWritten(pr) =>
            /\ pc[Caller] = "commits"
            /\ calls[Caller] = 3
            /\ Len(issued') = Len(issued) + 1
            /\ pr = batch[index]
            /\ outcomes' = Append(outcomes, JSONParse(store'[detailsKey(pr)].data))
     /\ SubRequestStep("detail") => (pc[Caller] = "next" /\ calls'[Caller] = 1)
     /\ SubRequestStep("reviews") =>
          /\ pc[Caller] = "detail"
          /\ calls'[Caller] = 2
          /\ Len(issued') = Len(issued) + 1
     /\ SubRequestStep("commits") =>
          /\ pc[Caller] = "reviews"
          /\ calls'[Caller] = 3
          /\ Len(issued') = Len(issued) + 1
     /\ DetailFailStep =>
          /\ store' = store
          /\ issued' = issued
          /\ calls'[Caller] = 0
          /\ pc'[Caller] \in {"next", "idle"}]_vars

\* of two records of one batch, the first failed at its commits request,
\* after two answered sub-requests, and has no entry; the second was
\* answered three times and is stored
C37_Witness ==
  /\ Len(batch) = 2
  /\ Len(outcomes) = 2
  /\ outcomes[1] = JSNull
  /\ outcomes[2] # JSNull
  /\ Len(issued) = 5
  /\ detailsKey(batch[1]) \notin DOMAIN store
  /\ detailsKey(batch[2]) \in DOMAIN store

----------------------------------------------------------------------------
(* Properties of getCommits and listRepositories *)

\* a page request of task t is answered in this step
ListStep(t) == pc[t] = "listing" /\ issued' # issued

\* the records of pages 1..k of the source, in order
RECURSIVE AllPages(_, _)
AllPages(src, k) ==
  IF k = 0 THEN <<>> ELSE AllPages(src, k - 1) \o ListPageOf(src, k)

\* the loop of task t, but for the list it returns: it starts at page 1, a
\* full page is followed by the request for the next page, and the first
\* page shorter than PerPage ends it, after as many requests as pages
PageLoop(t) ==
  /\ (pc[t] = "idle" /\ pc'[t] = "listing") => page'[t] = 1
  /\ ListStep(t) =>
       IF Len(ListPageOf(source, page[t])) < PerPage
       THEN /\ pc'[t] = "idle"
            /\ fetched'.kind = "value"
            /\ fetched'.requests = page[t]
       ELSE /\ pc'[t] = "listing"
            /\ page'[t] = page[t] + 1
            /\ fetched' = fetched

\* the records of the listing l among those of the pages 1..k
Passing(l, k) ==
  SelectSeq(AllPages(source, k),
            LAMBDA r : l.endpoint = "commits" \/ keepsRepo(r, l.options))

\* C38, as stated: getCommits and listRepositories end at the first page
\* shorter than PerPage, and not on a full page: with the first short page
\* at index k they make k page requests and return the records of the pages
\* 1..k, all of them, in order.
C38_ShortPageStops ==
  [][\A t \in Tasks :
       /\ PageLoop(t)
       /\ (ListStep(t) /\ pc'[t] = "idle") =>
            fetched'.list = NamesOf(AllPages(source, page[t]))]_vars

\* C38, amended: as above, but listRepositories returns, of the records of
\* the pages 1..k, those that pass the filters of its options
\* (excludeArchived, excludeForks, minSize), in order; getCommits returns all.
C38_ShortPageStopsFiltered ==
  [][\A t \in Tasks :
       /\ PageLoop(t)
       /\ (ListStep(t) /\ pc'[t] = "idle") =>
            fetched'.list = NamesOf(Passing(listing[t], page[t]))]_vars

\* a listing of a source of two pages, the second one short, that took two
\* page requests and left out a repository
C38_Witness ==
  /\ ~source.repeats
  /\ Len(source.records) >= PerPage
  /\ fetched.kind = "value"
  /\ fetched.window = NoWindow
  /\ fetched.requests = 2
  /\ fetched.cachedAt = now
  /\ fetched.list.tag = "names"
  /\ Len(fetched.list.items) < Len(source.records)

\* the loop is at page MaxPages of a source that has only full pages
C38_EndlessWitness ==
  /\ source.repeats
  /\ \E t \in Tasks : pc[t] = "listing" /\ page[t] = MaxPages

----------------------------------------------------------------------------
(* Properties of the periods of analyzeRepository *)

\* the pull requests fetched for the period, as the cache holds them
FetchedFor(period) ==
  LET k == pullsKey(periodWindow(run, period, StartDate))
  IN IF k \in DOMAIN store THEN JSONParse(store[k].data).items ELSE <<>>

NumbersOf(list) == {list[i].number : i \in 1..Len(list)}

\* C39: with a gap of zero days no pull request is counted in both periods,
\* also not one created at the instant at which the previous period ends
\* and the current period starts.
C39_PeriodsPartition ==
  (run.kind = "started" /\ run.gapDays = 0) =>
    NumbersOf(FetchedFor("current")) \cap NumbersOf(FetchedFor("previous")) = {}

\* both periods were fetched with a gap of zero and each holds a record
C39_BothFetched ==
  /\ run.kind = "started"
  /\ run.gapDays = 0
  /\ FetchedFor("current") # <<>>
  /\ FetchedFor("previous") # <<>>

----------------------------------------------------------------------------
(* Properties of the cache *)

\* this step is a get(k) / a getOrSet(k, fetchFunction) call by task t
GetStep(k) ==
  cacheOp' # cacheOp /\ cacheOp'.op = "get" /\ cacheOp'.key = k

GetOrSetStep(t, k) ==
  /\ pc[t] = "idle"
  /\ \/ pc'[t] = "fetching" /\ cacheKey'[t] = k
     \/ /\ cacheOp' # cacheOp
        /\ cacheOp'.op = "getOrSet"
        /\ cacheOp'.task = t
        /\ cacheOp'.key = k
        /\ cacheOp'.fetches = 0

\* C5: a get(k) made while the last set(k, v) is at most maxAge old, with no
\* eviction of k since, returns the payload v of that last set.
C5_RoundTrip ==
  [][\A k \in Keys :
       (GetStep(k) /\ written[k].set /\ now - written[k].at <= maxAge) =>
         cacheOp'.ret = written[k].payload]_vars

C5_Witness ==
  /\ cacheOp.op = "get"
  /\ written[cacheOp.key].set
  /\ cacheOp.ret = written[cacheOp.key].payload
  /\ cacheOp.ret = JSArr(<<1>>)
  /\ cacheOp.at - written[cacheOp.key].at >= MinuteMs
  /\ cacheOp.at - written[cacheOp.key].at <= maxAge

\* C6: a get(k) of an entry older than maxAge returns absent and removes the
\* entry; whatever a get or a getOrSet returns from the cache is at most
\* maxAge old.
C6_Expiry ==
  [][\A k \in Keys :
       /\ GetStep(k) =>
            /\ (k \in DOMAIN store /\ now - store[k].timestamp > maxAge) =>
                 (cacheOp'.ret = JSNull /\ k \notin DOMAIN store')
            /\ cacheOp'.ret # JSNull => Unexpired(k)
       /\ \A t \in Tasks :
            (GetOrSetStep(t, k) /\ pc'[t] = "idle") => Unexpired(k)]_vars

C6_Witness ==
  /\ cacheOp.op = "get"
  /\ cacheOp.evicted
  /\ cacheOp.ret = JSNull
  /\ cacheOp.key \notin DOMAIN store

\* C7: getOrSet calls fetchFunction at most once, and not at all when the
\* key has an unexpired cached value, which it returns; on a miss it returns
\* what fetchFunction produced and that value is stored under the key.
C7_GetOrSet ==
  [][\A t \in Tasks :
       /\ calls'[t] <= 1
       /\ cacheOp'.fetches <= 1
       /\ \A k \in Keys :
            (GetOrSetStep(t, k) /\ Unexpired(k)) =>
              /\ pc'[t] = "idle"
              /\ calls'[t] = 0
              /\ cacheOp'.ret = JSONParse(store[k].data)
       /\ (pc[t] = "fetching" /\ pc'[t] = "idle" /\ cacheOp'.kind = "value") =>
            /\ cacheOp'.fetches = 1
            /\ cacheOp'.ret = cacheOp'.fetched
            /\ cacheKey[t] \in DOMAIN store'
            /\ JSONParse(store'[cacheKey[t]].data) = cacheOp'.fetched
            /\ store'[cacheKey[t]].timestamp = now]_vars

C7_Witness ==
  /\ cacheOp.op = "getOrSet"
  /\ cacheOp.fetches = 0
  /\ cacheOp.ret = JSArr(<<>>)
  /\ written[cacheOp.key].set
  /\ cacheOp.at > written[cacheOp.key].at

\* C8: when fetchFunction fails, getOrSet fails with it and writes nothing:
\* its lookup creates or changes no entry and the failure leaves the store
\* as it is.
C8_FailureUncached ==
  [][\A t \in Tasks :
       /\ \A k \in Keys :
            GetOrSetStep(t, k) =>
              \A x \in DOMAIN store' : x \in DOMAIN store /\ store'[x] = store[x]
       /\ (pc[t] = "fetching" /\ pc'[t] = "idle" /\ cacheOp'.kind = "error") =>
            store' = store]_vars

C8_Witness ==
  /\ cacheOp.op = "getOrSet"
  /\ cacheOp.kind = "error"
  /\ cacheOp.fetches = 1
  /\ cacheOp.key \notin DOMAIN store

\* a file that has the structure of a cache entry
WellFormed(file) == file.timestamp >= 0

CleanupStep == cacheOp' # cacheOp /\ cacheOp'.op = "cleanup"

\* C21: cleanup removes exactly the expired and the corrupt files: afterwards
\* every file is a well-formed entry at most maxAge old, and every
\* well-formed entry that was at most maxAge old is still there, unchanged.
C21_SweepExact ==
  [][CleanupStep =>
       /\ \A k \in DOMAIN store' :
            WellFormed(store'[k]) /\ now - store'[k].timestamp <= maxAge
       /\ \A k \in DOMAIN store :
            (WellFormed(store[k]) /\ now - store[k].timestamp <= maxAge) =>
              (k \in DOMAIN store' /\ store'[k] = store[k])
       /\ DOMAIN store' \subseteq DOMAIN store]_vars

----------------------------------------------------------------------------
(* Properties of the metrics *)

\* the value comparePeriors reads from a summary for a metric
SummaryValue(s, m) ==
  CASE m = "cycleTime" -> s.cycleTime.avgHours
    [] m = "reviewTime" -> s.reviewTime.avgHours
    [] m = "prSize" -> s.prSize.avgChanges
    [] OTHER -> s.totalPRs

PairedMetrics == {"cycleTime", "reviewTime", "prSize", "totalPRs"}
LowerIsBetter == {"cycleTime", "reviewTime", "prSize"}

\* change = (cur - prev) / prev * 100, as an equation between integers
ExactChange(prev, cur, change) ==
  /\ IsNumber(change)
  /\ change.n * cur.d * prev.n = 100 * (cur.n * prev.d - prev.n * cur.d) * change.d

\* C22: for every paired metric the delta is absent exactly when the
\* previous or the current value is falsy or absent; otherwise percentChange
\* is (current - previous) / previous * 100, improvement is -percentChange
\* for cycle time, review time and size and +percentChange for the PR
\* count, and isImprovement is true exactly when improvement > 0.
C22_Deltas ==
  report.kind = "value" =>
    \A m \in PairedMetrics :
      LET prev == SummaryValue(analysed["previous"].summary, m)
          cur == SummaryValue(analysed["current"].summary, m)
          delta == report.deltas[m]
      IN /\ delta.isNull <=> (Falsy(prev) \/ Falsy(cur))
         /\ ~delta.isNull =>
              /\ ExactChange(prev, cur, delta.percentChange)
              /\ delta.improvement.d = delta.percentChange.d
              /\ delta.improvement.n = IF m \in LowerIsBetter
                                       THEN 0 - delta.percentChange.n
                                       ELSE delta.percentChange.n
              /\ delta.isImprovement <=> delta.improvement.n > 0

\* the cycle time went from 20 to 15 hours, the PR count from 1 to 2, and
\* no review time was there to compare
C22_Witness ==
  /\ report.kind = "value"
  /\ report.deltas["cycleTime"].oldValue = Num(20)
  /\ report.deltas["cycleTime"].newValue = Num(15)
  /\ report.deltas["cycleTime"].percentChange = Num(0 - 25)
  /\ report.deltas["cycleTime"].improvement = Num(25)
  /\ report.deltas["cycleTime"].isImprovement
  /\ report.deltas["totalPRs"].improvement = Num(100)
  /\ report.deltas["reviewTime"].isNull

\* the metrics whose delta is not absent
PresentDeltas == {m \in PairedMetrics : ~report.deltas[m].isNull}

RECURSIVE ImprovementSum(_)
ImprovementSum(ms) ==
  IF ms = {} THEN Num(0)
  ELSE LET m == CHOOSE x \in ms : TRUE
       IN Plus(report.deltas[m].improvement, ImprovementSum(ms \ {m}))

\* C23: overallImprovement is the arithmetic mean of the improvements of
\* exactly the metrics whose delta is not absent, and zero when every delta
\* is absent.
C23_OverallMean ==
  report.kind = "value" =>
    IF PresentDeltas = {} THEN report.overallImprovement = Num(0)
    ELSE Times(report.overallImprovement, Cardinality(PresentDeltas))
           = ImprovementSum(PresentDeltas)

\* three of the four deltas are there: 25 for the cycle time, 200/3 for the
\* size, 0 for the PR count; their mean is 275/9
C23_Witness ==
  /\ report.kind = "value"
  /\ PresentDeltas = {"cycleTime", "prSize", "totalPRs"}
  /\ report.deltas["cycleTime"].improvement = Num(25)
  /\ report.deltas["totalPRs"].improvement = Num(0)
  /\ report.overallImprovement = Fraction(275, 9)

\* every delta is absent because the previous period has no merged record
C23_NoneWitness ==
  /\ report.kind = "value"
  /\ analysed["previous"].summary.isNull
  /\ ~analysed["current"].summary.isNull
  /\ report.overallImprovement = Num(0)

C24_UpperWitness ==
  /\ report.kind = "value"
  /\ report.overallImprovement = Num(15)
  /\ report.summary.impact = "significant"

RECURSIVE FieldSum(_, _, _)
FieldSum(metrics, field, is) ==
  IF is = {} THEN Num(0)
  ELSE LET i == CHOOSE x \in is : TRUE
       IN Plus(metrics[i][field], FieldSum(metrics, field, is \ {i}))

\* the mean avg is taken over the values of field at the positions is
MeanOver(avg, metrics, field, is) ==
  IF is = {} THEN avg = Num(0)
  ELSE Times(avg, Cardinality(is)) = FieldSum(metrics, field, is)

\* C25: the summary aggregates each field over its own available values:
\* reviewTime.count is the number of records with a review time,
\* cycleTime.count the number with a cycle time, each mean is taken over
\* exactly those values, and the size over every record.
C25_PerField ==
  \A p \in Periods :
    (analysed[p].kind = "value" /\ analysed[p].metrics # <<>>) =>
      LET metrics == analysed[p].metrics
          summary == analysed[p].summary
          withCycle == {i \in 1..Len(metrics) : metrics[i].cycleTimeHours # null}
          withReview == {i \in 1..Len(metrics) : metrics[i].reviewTimeHours # null}
      IN /\ ~summary.isNull
         /\ summary.totalPRs = Num(Len(metrics))
         /\ summary.cycleTime.count = Cardinality(withCycle)
         /\ summary.reviewTime.count = Cardinality(withReview)
         /\ MeanOver(summary.cycleTime.avgHours, metrics, "cycleTimeHours", withCycle)
         /\ MeanOver(summary.reviewTime.avgHours, metrics, "reviewTimeHours", withReview)
         /\ MeanOver(summary.prSize.avgChanges, metrics, "totalChanges",
                     1..Len(metrics))

\* cycle times of 5 and 15 hours and one review time of 2 hours: the cycle
\* mean is 10 hours over two records, the review mean 2 hours over one
C25_Witness ==
  /\ analysed["current"].kind = "value"
  /\ Len(analysed["current"].metrics) = 2
  /\ analysed["current"].metrics[1].cycleTimeHours = Num(5)
  /\ analysed["current"].metrics[1].reviewTimeHours = Num(2)
  /\ analysed["current"].metrics[2].cycleTimeHours = Num(15)
  /\ analysed["current"].metrics[2].reviewTimeHours = null
  /\ analysed["current"].summary.cycleTime = [avgHours |-> Num(10), count |-> 2]
  /\ analysed["current"].summary.reviewTime = [avgHours |-> Num(2), count |-> 1]
  /\ analysed["current"].summary.prSize.avgChanges = Num(10)

\* C26: the metrics engine never raises on a record in which a field is
\* missing: analyzePullRequest returns for every record of a period.
C26_NeverRaises ==
  \A p \in Periods : analysed[p].raised = 0

\* C27: every analysis that is started uses a current period and a
\* comparison period of at most 90 days each.
C27_NinetyDayLimit ==
  run.kind = "started" =>
    /\ run.currentPeriodDays <= MaxPeriodDays
    /\ run.previousPeriodDays <= MaxPeriodDays

----------------------------------------------------------------------------
(* Properties of the cache keys *)

Props(obj) == {obj[i] : i \in 1..Len(obj)}

\* the two computations have equal operation, scope and name/value pairs
SameRequest ==
  /\ keyArgs[1].type = keyArgs[2].type
  /\ keyArgs[1].owner = keyArgs[2].owner
  /\ keyArgs[1].repo = keyArgs[2].repo
  /\ Props(keyArgs[1].params) = Props(keyArgs[2].params)

\* C9: two key computations with equal operation, scope and params yield the
\* same key, in whatever order the params list their name/value pairs.
C9_KeyDeterminism ==
  (keyOut # <<>> /\ SameRequest) => keyOut[1] = keyOut[2]

====
